---- MODULE Spec2Model ----
(***************************************************************************)
(* Model of the OPC UA nodeset parser (NodesetParser) and of the shared    *)
(* instance `nodesetParser` that FileImportServiceImpl.parseNodesetFile    *)
(* calls.                                                                  *)
(*                                                                         *)
(* Text that the code inspects character by character (node ids, browse    *)
(* names, display names) is a sequence of one-character strings, so that   *)
(* trim(), split(':'), includes() and toLowerCase() are computed.  Text    *)
(* that the code only copies or compares as a whole (URIs, file names,     *)
(* reference type names, error texts) is a TLA+ string.                    *)
(*                                                                         *)
(* An XML document is the tree DOMParser returns, reduced to what the      *)
(* parser queries: the parsererror element (present for malformed input),  *)
(* the UANodeSet element, and below it NamespaceUris/Uri, Aliases/Alias    *)
(* and the node elements with their attributes, DisplayName, Description   *)
(* and References/Reference children.  Documents follow the UANodeSet      *)
(* schema in shape: at most one NamespaceUris and one Aliases element,     *)
(* node elements directly below UANodeSet, no node element nested in       *)
(* another.                                                                *)
(*                                                                         *)
(* Four specifications run the same parser on different inputs: Spec on    *)
(* documents of objects and variables with auxiliary documents, SpecTypes  *)
(* on documents of type definitions, SpecRecorded as Spec with the maps at *)
(* the start of each call remembered, SpecNodeClass with getNodeClass      *)
(* applied to tags outside the list of processNodeset.                     *)
(* SpecReferences, SpecSameId and SpecAux run one call of a new parser on  *)
(* documents of Reference elements, of elements that share a NodeId and on *)
(* auxiliary documents that are no nodeset.  SpecImport runs the parser    *)
(* inside the import of files (FileImport and FileImportServiceImpl);      *)
(* SpecDuplicate enters that import at the duplicate check.                *)
(***************************************************************************)
EXTENDS Integers, Sequences, FiniteSets, TLC

VARIABLES
    aliasMap,           \* NodesetParser.aliasMap (instance field)
    nodeNameMap,        \* NodesetParser.nodeNameMap (instance field)
    pc,                 \* position inside parseNodeset / processNodeset
    xmlContent,         \* argument: the main document
    fileName,           \* argument: the file name, or Undefined
    referenceNodesets,  \* argument: the auxiliary documents
    refIdx,             \* forEach index over referenceNodesets
    namespaceUri,       \* local of processNodeset
    work,               \* remaining (nodeType, xmlNode) pairs of the two nested forEach loops
    nodes,              \* local `nodes` Map of processNodeset, in insertion order
    rootNodes,          \* local `rootNodes` of processNodeset
    outcome,            \* what the promise of parseNodeset settled to
    before,             \* history: the instance maps when the call started (kept by CallRecorded)
    importPc,           \* position inside the import of one file (FileImport)
    currentFile,        \* the file being imported: its name, size, date and text
    validation,         \* what validateXML returned for the file
    checksum,           \* what generateChecksum resolved to for the file
    isDuplicate,        \* what detectDuplicate returned for the file
    loadedChecksums,    \* the checksums of the nodesets loaded so far
    loadedNamespaces,   \* the namespace URIs of the nodesets loaded so far
    metadata,           \* what extractMetadata returned for the file
    events              \* the service calls and callbacks of the import, in order

vars == <<aliasMap, nodeNameMap, pc, xmlContent, fileName, referenceNodesets,
          refIdx, namespaceUri, work, nodes, rootNodes, outcome, before,
          importPc, currentFile, validation, checksum, isDuplicate, loadedChecksums,
          loadedNamespaces, metadata, events>>

\* the state of the import pipeline around the parser
importVars == <<importPc, currentFile, validation, checksum, isDuplicate, loadedChecksums,
                loadedNamespaces, metadata, events>>

\* the state of the parser and of the call in progress
parserVars == <<aliasMap, nodeNameMap, pc, xmlContent, fileName, referenceNodesets,
                refIdx, namespaceUri, work, nodes, rootNodes, outcome, before>>

-----------------------------------------------------------------------------
(* Bounds of the model *)

MaxElems == 2       \* node elements of a main document
MaxAux == 2         \* auxiliary documents of one call

-----------------------------------------------------------------------------
(* JavaScript values *)

\* an attribute or optional field: absent (null / undefined) or a value
NoAttr == [has |-> FALSE, v |-> <<>>]
Attr(s) == [has |-> TRUE, v |-> s]
Truthy(a) == a.has /\ a.v # <<>>

\* the same for whole-string values
NoName == [has |-> FALSE, v |-> ""]
Name(s) == [has |-> TRUE, v |-> s]
TruthyName(a) == a.has /\ a.v # ""

Undefined == "undefined"

IsSpace(c) == c \in {" ", "\n", "\t"}

RECURSIVE TrimStart(_)
TrimStart(s) ==
    IF s # <<>> /\ IsSpace(Head(s)) THEN TrimStart(Tail(s)) ELSE s

RECURSIVE TrimEnd(_)
TrimEnd(s) ==
    IF s # <<>> /\ IsSpace(s[Len(s)]) THEN TrimEnd(SubSeq(s, 1, Len(s) - 1)) ELSE s

\* String.prototype.trim
Trim(s) == TrimEnd(TrimStart(s))

\* String.prototype.split(sep) for a one-character separator
RECURSIVE Split(_, _)
Split(s, sep) ==
    IF \A i \in 1..Len(s) : s[i] # sep
    THEN <<s>>
    ELSE LET i == CHOOSE j \in 1..Len(s) :
                      s[j] = sep /\ \A k \in 1..(j - 1) : s[k] # sep
         IN  <<SubSeq(s, 1, i - 1)>> \o Split(SubSeq(s, i + 1, Len(s)), sep)

\* String.prototype.includes
Includes(s, sub) ==
    \E i \in 0..(Len(s) - Len(sub)) : SubSeq(s, i + 1, i + Len(sub)) = sub

UpperCase == <<"A","B","C","D","E","F","G","H","I","J","K","L","M",
               "N","O","P","Q","R","S","T","U","V","W","X","Y","Z">>
LowerCase == <<"a","b","c","d","e","f","g","h","i","j","k","l","m",
               "n","o","p","q","r","s","t","u","v","w","x","y","z">>

\* String.prototype.toLowerCase
ToLowerCase(s) ==
    [i \in 1..Len(s) |->
        IF \E k \in 1..26 : UpperCase[k] = s[i]
        THEN LowerCase[CHOOSE k \in 1..26 : UpperCase[k] = s[i]]
        ELSE s[i]]

\* Map.prototype.set on a map kept as a function
MapPut(m, k, v) == [x \in (DOMAIN m) \cup {k} |-> IF x = k THEN v ELSE m[x]]
EmptyMap == [x \in {} |-> <<>>]

-----------------------------------------------------------------------------
(* The parser's pure parts *)

NodeTypes == <<"UAObject", "UAVariable", "UAMethod", "UAObjectType",
               "UAVariableType", "UAReferenceType", "UADataType", "UAView">>

DefaultNamespaceUri == "http://opcfoundation.org/UA/"
MissingRootMessage == "Invalid nodeset format: UANodeSet element not found"
ParseErrorPrefix == "Failed to parse XML: "
DefaultFileName == "unknown.xml"

\* resolveNodeId with the two lookups in the other order
resolveNodeId_NamesFirst(am, nm, nodeId) ==
    IF nodeId = <<>> THEN <<>>
    ELSE IF nodeId \in DOMAIN nm THEN nm[nodeId]
    ELSE IF nodeId \in DOMAIN am THEN am[nodeId]
    ELSE LET parts == Split(nodeId, ":")
             last == parts[Len(parts)]
         IN  IF last # <<>> THEN last ELSE nodeId

\* NodesetParser.resolveNodeId, reading the two instance maps am and nm
resolveNodeId(am, nm, nodeId) ==
    IF nodeId = <<>> THEN <<>>
    ELSE IF nodeId \in DOMAIN am THEN am[nodeId]
    ELSE IF nodeId \in DOMAIN nm THEN nm[nodeId]
    ELSE LET parts == Split(nodeId, ":")
             last == parts[Len(parts)]
         IN  IF last # <<>> THEN last ELSE nodeId

\* putAliases that keeps the first name a key was given
RECURSIVE putAliases_KeepFirst(_, _)
putAliases_KeepFirst(am, aliasElements) ==
    IF aliasElements = <<>> THEN am
    ELSE LET alias == Head(aliasElements)
             aliasName == alias.Alias
             nodeId == Trim(alias.text)
         IN  putAliases_KeepFirst(
                        IF Truthy(aliasName) /\ nodeId # <<>> /\ nodeId \notin DOMAIN am
                        THEN MapPut(am, nodeId, aliasName.v)
                        ELSE am,
                        Tail(aliasElements))

\* the forEach of parseAliases over the Alias elements
RECURSIVE putAliases(_, _)
putAliases(am, aliasElements) ==
    IF aliasElements = <<>> THEN am
    ELSE LET alias == Head(aliasElements)
             aliasName == alias.Alias
             nodeId == Trim(alias.text)
         IN  putAliases(IF Truthy(aliasName) /\ nodeId # <<>>
                        THEN MapPut(am, nodeId, aliasName.v)
                        ELSE am,
                        Tail(aliasElements))

\* NodesetParser.parseAliases: the alias map after the call
parseAliases(am, uaNodeSet) ==
    IF ~uaNodeSet.Aliases.has THEN am
    ELSE putAliases(am, uaNodeSet.Aliases.Alias)

\* Element.querySelectorAll(nodeType) below UANodeSet
querySelectorAll(uaNodeSet, nodeType) ==
    SelectSeq(uaNodeSet.elems, LAMBDA e : e.tag = nodeType)

\* the node elements in the order of the two nested forEach loops
RECURSIVE elementsByType(_, _)
elementsByType(uaNodeSet, types) ==
    IF types = <<>> THEN <<>>
    ELSE LET found == querySelectorAll(uaNodeSet, Head(types))
         IN  [i \in 1..Len(found) |-> [nodeType |-> Head(types), xmlNode |-> found[i]]]
             \o elementsByType(uaNodeSet, Tail(types))

RECURSIVE putNodeNames(_, _)
putNodeNames(nm, items) ==
    IF items = <<>> THEN nm
    ELSE LET xmlNode == Head(items).xmlNode
             nodeId == xmlNode.NodeId
             browseName == xmlNode.BrowseName
         IN  putNodeNames(IF Truthy(nodeId) /\ Truthy(browseName)
                          THEN MapPut(nm, nodeId.v, browseName.v)
                          ELSE nm,
                          Tail(items))

\* NodesetParser.parseNodeNames: the node name map after the call
parseNodeNames(nm, uaNodeSet) ==
    putNodeNames(nm, elementsByType(uaNodeSet, NodeTypes))

\* NodesetParser.getElementText on an already selected child element
getElementText(element) ==
    IF ~element.has THEN <<>>
    ELSE IF element.hasText /\ element.text # <<>> THEN Trim(element.text)
    ELSE Trim(element.own)

\* `mapping` is an object literal: besides its eight own properties, a lookup
\* finds the properties it inherits from Object.prototype (functions, or the
\* prototype object itself for __proto__: all of them truthy)
ObjectPrototypeKeys ==
    {"constructor", "toString", "toLocaleString", "valueOf", "hasOwnProperty",
     "isPrototypeOf", "propertyIsEnumerable", "__proto__", "__defineGetter__",
     "__defineSetter__", "__lookupGetter__", "__lookupSetter__"}

\* NodesetParser.getNodeClass
getNodeClass(nodeType) ==
    CASE nodeType = "UAObject" -> "Object"
      [] nodeType = "UAVariable" -> "Variable"
      [] nodeType = "UAMethod" -> "Method"
      [] nodeType = "UAObjectType" -> "ObjectType"
      [] nodeType = "UAVariableType" -> "VariableType"
      [] nodeType = "UAReferenceType" -> "ReferenceType"
      [] nodeType = "UADataType" -> "DataType"
      [] nodeType = "UAView" -> "View"
      [] nodeType \in ObjectPrototypeKeys -> "Object.prototype." \o nodeType
      [] OTHER -> "Object"

RECURSIVE parseReferences_TrueOnly(_)
parseReferences_TrueOnly(refElements) ==
    IF refElements = <<>> THEN <<>>
    ELSE LET ref == Head(refElements)
             targetNodeId == Trim(ref.text)
         IN  (IF targetNodeId # <<>>
              THEN <<[referenceType |-> IF TruthyName(ref.ReferenceType)
                                        THEN ref.ReferenceType.v ELSE "References",
                      isForward |-> ~ref.IsForward.has \/ ref.IsForward.v = "true",
                      targetNodeId |-> targetNodeId]>>
              ELSE <<>>)
             \o parseReferences_TrueOnly(Tail(refElements))

\* the forEach of parseNode over the Reference elements
RECURSIVE parseReferences(_)
parseReferences(refElements) ==
    IF refElements = <<>> THEN <<>>
    ELSE LET ref == Head(refElements)
             targetNodeId == Trim(ref.text)
         IN  (IF targetNodeId # <<>>
              THEN <<[referenceType |-> IF TruthyName(ref.ReferenceType)
                                        THEN ref.ReferenceType.v ELSE "References",
                      isForward |-> ~(ref.IsForward.has /\ ref.IsForward.v = "false"),
                      targetNodeId |-> targetNodeId]>>
              ELSE <<>>)
             \o parseReferences(Tail(refElements))

\* references.find(ref => ref.referenceType === type && ref.isForward === forward),
\* as the position of the reference found (0 when there is none)
firstReference(references, type, forward) ==
    LET Test(ref) == ref.referenceType = type /\ ref.isForward = forward
    IN  IF \E i \in 1..Len(references) : Test(references[i])
        THEN CHOOSE i \in 1..Len(references) :
                Test(references[i]) /\ \A j \in 1..(i - 1) : ~Test(references[j])
        ELSE 0

findDerivedFrom_AnyDirection(references) ==
    LET found == SelectSeq(references, LAMBDA r : r.referenceType = "HasSubtype")
    IN  IF found = <<>> THEN NoAttr ELSE Attr(found[1].targetNodeId)

\* NodesetParser.findDerivedFrom
findDerivedFrom(references) ==
    LET i == firstReference(references, "HasSubtype", FALSE)
    IN  IF i = 0 THEN NoAttr ELSE Attr(references[i].targetNodeId)

Digits == <<"0", "1", "2", "3", "4", "5", "6", "7", "8", "9">>
IsDigit(c) == \E d \in 1..10 : Digits[d] = c
DigitValue(c) == (CHOOSE d \in 1..10 : Digits[d] = c) - 1

RECURSIVE ParseDigits(_, _)
ParseDigits(s, acc) ==
    IF s # <<>> /\ IsDigit(Head(s))
    THEN ParseDigits(Tail(s), acc * 10 + DigitValue(Head(s)))
    ELSE acc

\* parseInt(string): leading white space, an optional sign, the leading digits
ParseInt(str) ==
    LET t == TrimStart(str)
        signed == t # <<>> /\ Head(t) \in {"-", "+"}
        d == IF signed THEN Tail(t) ELSE t
    IN  IF d = <<>> \/ ~IsDigit(Head(d))
        THEN [has |-> TRUE, nan |-> TRUE, n |-> 0]
        ELSE [has |-> TRUE, nan |-> FALSE,
              n |-> IF signed /\ Head(t) = "-" THEN 0 - ParseDigits(d, 0)
                    ELSE ParseDigits(d, 0)]
NoNumber == [has |-> FALSE, nan |-> FALSE, n |-> 0]

\* NodesetParser.parseNode: [has |-> FALSE] stands for the null it returns
parseNode(am, nm, xmlNode, nodeType) ==
    IF ~Truthy(xmlNode.NodeId) THEN [has |-> FALSE]
    ELSE
    LET nodeClass == getNodeClass(nodeType)
        displayName == getElementText(xmlNode.DisplayName)
        description == getElementText(xmlNode.Description)
        browseName == IF Truthy(xmlNode.BrowseName) THEN xmlNode.BrowseName.v
                      ELSE displayName
        references == IF xmlNode.References.has
                      THEN parseReferences(xmlNode.References.Reference)
                      ELSE <<>>
        dataType == xmlNode.DataType
        valueRankStr == xmlNode.ValueRank
        parentNodeId == xmlNode.ParentNodeId
        derivedFromId == findDerivedFrom(references)
        typeDefRef == firstReference(references, "HasTypeDefinition", TRUE)
        modellingRuleRef == firstReference(references, "HasModellingRule", TRUE)
    IN  [has |-> TRUE,
         node |->
           [nodeId |-> xmlNode.NodeId.v,
            browseName |-> browseName,
            displayName |-> displayName,
            nodeClass |-> nodeClass,
            description |-> description,
            dataType |-> IF Truthy(dataType)
                         THEN Attr(resolveNodeId(am, nm, dataType.v)) ELSE NoAttr,
            valueRank |-> IF Truthy(valueRankStr) THEN ParseInt(valueRankStr.v)
                          ELSE NoNumber,
            modellingRule |-> IF modellingRuleRef # 0
                              THEN Attr(resolveNodeId(am, nm,
                                        references[modellingRuleRef].targetNodeId))
                              ELSE NoAttr,
            type |-> IF Truthy(parentNodeId)
                     THEN Attr(resolveNodeId(am, nm, parentNodeId.v)) ELSE NoAttr,
            typeDefinition |-> IF typeDefRef # 0
                               THEN Attr(resolveNodeId(am, nm,
                                         references[typeDefRef].targetNodeId))
                               ELSE NoAttr,
            derivedFrom |-> IF Truthy(derivedFromId)
                            THEN Attr(resolveNodeId(am, nm, derivedFromId.v))
                            ELSE NoAttr,
            references |-> references,
            children |-> <<>>]]

-----------------------------------------------------------------------------
(* The node map, the hierarchy and the categories.  The Map `nodes` is the   *)
(* sequence of its values in insertion order; a children list holds the     *)
(* nodeIds of the map nodes it refers to.                                   *)

\* Map.prototype.get, as the position of the key (0 when absent)
NodeIndex(nodeMap, nodeId) ==
    IF \E i \in 1..Len(nodeMap) : nodeMap[i].nodeId = nodeId
    THEN CHOOSE i \in 1..Len(nodeMap) : nodeMap[i].nodeId = nodeId
    ELSE 0

\* a map that keeps the node of every element
NodeSet_Append(nodeMap, node) == Append(nodeMap, node)

\* nodes.set(node.nodeId, node): a present key keeps its place
NodeSet(nodeMap, node) ==
    LET i == NodeIndex(nodeMap, node.nodeId)
    IN  IF i = 0 THEN Append(nodeMap, node) ELSE [nodeMap EXCEPT ![i] = node]

\* childrenOf that does not look at the direction of a reference
RECURSIVE childrenOf_AnyDirection(_, _)
childrenOf_AnyDirection(nodeMap, references) ==
    IF references = <<>> THEN <<>>
    ELSE LET ref == Head(references)
         IN  (IF /\ ref.referenceType \in {"HasComponent", "Organizes", "HasProperty"}
                 /\ NodeIndex(nodeMap, ref.targetNodeId) # 0
              THEN <<ref.targetNodeId>>
              ELSE <<>>)
             \o childrenOf_AnyDirection(nodeMap, Tail(references))

\* the inner forEach of buildHierarchy: what one node's references push
RECURSIVE childrenOf(_, _)
childrenOf(nodeMap, references) ==
    IF references = <<>> THEN <<>>
    ELSE LET ref == Head(references)
         IN  (IF /\ ref.referenceType \in {"HasComponent", "Organizes", "HasProperty"}
                 /\ ref.isForward
                 /\ NodeIndex(nodeMap, ref.targetNodeId) # 0
              THEN <<ref.targetNodeId>>
              ELSE <<>>)
             \o childrenOf(nodeMap, Tail(references))

\* buildHierarchy run as each node is extracted: a node finds only the nodes
\* set before it
buildHierarchy_WhileExtracting(nodeMap) ==
    [i \in 1..Len(nodeMap) |->
        [nodeMap[i] EXCEPT !.children =
            @ \o childrenOf(SubSeq(nodeMap, 1, i), nodeMap[i].references)]]

\* NodesetParser.buildHierarchy: the map after the call
buildHierarchy(nodeMap) ==
    [i \in 1..Len(nodeMap) |->
        [nodeMap[i] EXCEPT !.children = @ \o childrenOf(nodeMap, nodeMap[i].references)]]

EventTypeText == <<"E","v","e","n","t","T","y","p","e">>
InterfaceText == <<"I","n","t","e","r","f","a","c","e">>
EventText == <<"e","v","e","n","t">>
InterfaceLowerText == <<"i","n","t","e","r","f","a","c","e">>

\* NodesetParser.hasEventTypeReference
hasEventTypeReference(node) ==
    \E i \in 1..Len(node.references) :
        /\ node.references[i].referenceType = "HasSubtype"
        /\ Includes(node.references[i].targetNodeId, EventTypeText)

\* NodesetParser.hasInterfaceReference
hasInterfaceReference(node) ==
    \E i \in 1..Len(node.references) :
        \/ node.references[i].referenceType = "HasInterface"
        \/ /\ node.references[i].referenceType = "HasSubtype"
           /\ Includes(node.references[i].targetNodeId, InterfaceText)

CategoryPrefix == <<"C","a","t","e","g","o","r","y","_">>
DataTypesName == <<"D","a","t","a","T","y","p","e","s">>
EventTypesName == <<"E","v","e","n","t","T","y","p","e","s">>
InterfaceTypesName == <<"I","n","t","e","r","f","a","c","e","T","y","p","e","s">>
ObjectTypesName == <<"O","b","j","e","c","t","T","y","p","e","s">>
ReferenceTypesName == <<"R","e","f","e","r","e","n","c","e","T","y","p","e","s">>
VariableTypesName == <<"V","a","r","i","a","b","l","e","T","y","p","e","s">>

\* NodesetParser.createCategoryNode
createCategoryNode(name, nodeClass) ==
    [nodeId |-> CategoryPrefix \o name,
     browseName |-> name,
     displayName |-> name,
     nodeClass |-> nodeClass,
     references |-> <<>>,
     children |-> <<>>]

\* categoryOf that tests the InterfaceTypes rule before the EventTypes rule
categoryOf_InterfaceFirst(node) ==
    IF node.nodeClass = "DataType" THEN DataTypesName
    ELSE IF node.nodeClass = "ReferenceType" THEN ReferenceTypesName
    ELSE IF node.nodeClass = "VariableType" THEN VariableTypesName
    ELSE IF node.nodeClass = "ObjectType" THEN
        LET browseName == ToLowerCase(node.browseName)
        IN  IF Includes(browseName, InterfaceLowerText) \/ hasInterfaceReference(node)
            THEN InterfaceTypesName
            ELSE IF Includes(browseName, EventText) \/ hasEventTypeReference(node)
            THEN EventTypesName
            ELSE ObjectTypesName
    ELSE <<>>

\* categoryOf that takes a Variable for a VariableType
categoryOf_VariablesToo(node) ==
    IF node.nodeClass = "DataType" THEN DataTypesName
    ELSE IF node.nodeClass = "ReferenceType" THEN ReferenceTypesName
    ELSE IF node.nodeClass \in {"VariableType", "Variable"} THEN VariableTypesName
    ELSE IF node.nodeClass = "ObjectType" THEN
        LET browseName == ToLowerCase(node.browseName)
        IN  IF Includes(browseName, EventText) \/ hasEventTypeReference(node)
            THEN EventTypesName
            ELSE IF Includes(browseName, InterfaceLowerText) \/ hasInterfaceReference(node)
            THEN InterfaceTypesName
            ELSE ObjectTypesName
    ELSE <<>>

\* the category a node is pushed to by the forEach of organizeIntoCategories
categoryOf(node) ==
    IF node.nodeClass = "DataType" THEN DataTypesName
    ELSE IF node.nodeClass = "ReferenceType" THEN ReferenceTypesName
    ELSE IF node.nodeClass = "VariableType" THEN VariableTypesName
    ELSE IF node.nodeClass = "ObjectType" THEN
        LET browseName == ToLowerCase(node.browseName)
        IN  IF Includes(browseName, EventText) \/ hasEventTypeReference(node)
            THEN EventTypesName
            ELSE IF Includes(browseName, InterfaceLowerText) \/ hasInterfaceReference(node)
            THEN InterfaceTypesName
            ELSE ObjectTypesName
    ELSE <<>>

\* a category node after the forEach: the members in map order
collect(nodeMap, category) ==
    LET members == SelectSeq(nodeMap, LAMBDA node : categoryOf(node) = category.browseName)
    IN  [category EXCEPT !.children = [i \in 1..Len(members) |-> members[i].nodeId]]

\* organizeIntoCategories that returns the six categories, empty or not
organizeIntoCategories_KeepEmpty(nodeMap) ==
    <<collect(nodeMap, createCategoryNode(DataTypesName, "DataType")),
      collect(nodeMap, createCategoryNode(EventTypesName, "ObjectType")),
      collect(nodeMap, createCategoryNode(InterfaceTypesName, "ObjectType")),
      collect(nodeMap, createCategoryNode(ObjectTypesName, "ObjectType")),
      collect(nodeMap, createCategoryNode(ReferenceTypesName, "ReferenceType")),
      collect(nodeMap, createCategoryNode(VariableTypesName, "VariableType"))>>

\* NodesetParser.organizeIntoCategories
organizeIntoCategories(nodeMap) ==
    LET all == <<collect(nodeMap, createCategoryNode(DataTypesName, "DataType")),
                 collect(nodeMap, createCategoryNode(EventTypesName, "ObjectType")),
                 collect(nodeMap, createCategoryNode(InterfaceTypesName, "ObjectType")),
                 collect(nodeMap, createCategoryNode(ObjectTypesName, "ObjectType")),
                 collect(nodeMap, createCategoryNode(ReferenceTypesName, "ReferenceType")),
                 collect(nodeMap, createCategoryNode(VariableTypesName, "VariableType"))>>
    IN  SelectSeq(all, LAMBDA category : Len(category.children) > 0)

-----------------------------------------------------------------------------
(* Inputs: the documents parseNodeset is called with *)

I1 == <<"i", "=", "1">>
I2 == <<"i", "=", "2">>
I2Spaced == <<" ", "i", "=", "2", "\n">>
NsT == <<"n", ":", "T">>            \* a colon, then a suffix
NsTSpaced == <<" ", "n", ":", "T">>
NsEnd == <<"n", ":">>               \* nothing after the last colon
Blank == <<" ", " ">>

NoText == [has |-> FALSE, hasText |-> FALSE, text |-> <<>>, own |-> <<>>]
OwnText(s) == [has |-> TRUE, hasText |-> FALSE, text |-> <<>>, own |-> s]
ChildText(s, own) == [has |-> TRUE, hasText |-> TRUE, text |-> s, own |-> own]

Reference(type, isForward, text) ==
    [ReferenceType |-> type, IsForward |-> isForward, text |-> text]
NoReferences == [has |-> FALSE, Reference |-> <<>>]
References(refs) == [has |-> TRUE, Reference |-> refs]

\* <UAObject NodeId="i=1" BrowseName="A"> with references of every kind
ObjA ==
    [tag |-> "UAObject", NodeId |-> Attr(I1), BrowseName |-> Attr(<<"A">>),
     DisplayName |-> ChildText(<<" ", "O", "b", "j", " ">>, <<"\n">>),
     Description |-> OwnText(<<"d", " ">>),
     DataType |-> NoAttr, ValueRank |-> NoAttr, ParentNodeId |-> NoAttr,
     References |-> References(<<
        Reference(Name("HasComponent"), NoName, I2Spaced),
        Reference(Name("Organizes"), Name("false"), I2),
        Reference(Name("HasProperty"), Name("true"), I1),
        Reference(Name("HasTypeDefinition"), NoName, NsT),
        Reference(NoName, NoName, I2),
        Reference(Name("HasComponent"), NoName, Blank)>>)]

\* <UAVariable NodeId="i=2" DataType="i=2" ParentNodeId="i=1"> without BrowseName
VarB ==
    [tag |-> "UAVariable", NodeId |-> Attr(I2), BrowseName |-> NoAttr,
     DisplayName |-> OwnText(<<"B">>),
     Description |-> NoText,
     DataType |-> Attr(I2), ValueRank |-> Attr(<<"-", "1">>), ParentNodeId |-> Attr(I1),
     References |-> References(<<
        Reference(Name("HasSubtype"), Name("false"), NsT),
        Reference(Name("HasModellingRule"), Name("true"), NsEnd),
        Reference(Name("Organizes"), NoName, I1),
        Reference(Name("HasProperty"), Name("False"), <<"i", "=", "9">>),
        Reference(Name("HasComponent"), Name("false"), I1)>>)]

\* <UAObject BrowseName="N" DataType="i=2">: no NodeId attribute
NoId ==
    [tag |-> "UAObject", NodeId |-> NoAttr, BrowseName |-> Attr(<<"N">>),
     DisplayName |-> NoText, Description |-> NoText,
     DataType |-> Attr(I2), ValueRank |-> NoAttr, ParentNodeId |-> NoAttr,
     References |-> NoReferences]

\* <UADataType NodeId="" BrowseName="E">: an empty NodeId attribute
EmptyId ==
    [tag |-> "UADataType", NodeId |-> Attr(<<>>), BrowseName |-> Attr(<<"E">>),
     DisplayName |-> NoText, Description |-> NoText,
     DataType |-> NoAttr, ValueRank |-> Attr(<<"x">>), ParentNodeId |-> NoAttr,
     References |-> NoReferences]

\* <UADataType NodeId="i=1" BrowseName="D" DataType="n:">: the NodeId of ObjA again
TypD ==
    [tag |-> "UADataType", NodeId |-> Attr(I1), BrowseName |-> Attr(<<"D">>),
     DisplayName |-> ChildText(<<>>, <<" ", "D", "t">>), Description |-> NoText,
     DataType |-> Attr(NsEnd), ValueRank |-> NoAttr, ParentNodeId |-> Attr(NsT),
     References |-> References(<<
        Reference(Name("HasSubtype"), NoName, I2),
        Reference(Name("HasProperty"), NoName, I2),
        Reference(Name("HasTypeDefinition"), Name("false"), I2),
        Reference(Name("HasSubtype"), Name("false"), I2)>>)]

ElemPool == {ObjA, VarB, NoId, EmptyId, TypD}

\* all sequences over S of length at most n
SeqsUpTo(S, n) == UNION {[1..k -> S] : k \in 0..n}

NoAliases == [has |-> FALSE, Alias |-> <<>>]
Aliases(entries) == [has |-> TRUE, Alias |-> entries]
Alias(name, text) == [Alias |-> name, text |-> text]
NoNamespaceUris == [has |-> FALSE, Uri |-> <<>>]
NamespaceUris(uris) == [has |-> TRUE, Uri |-> uris]

NoNodeSet == [has |-> FALSE, NamespaceUris |-> NoNamespaceUris,
              Aliases |-> NoAliases, elems |-> <<>>]
NodeSetOf(ns, al, el) == [has |-> TRUE, NamespaceUris |-> ns, Aliases |-> al, elems |-> el]

\* what DOMParser.parseFromString returns
Document(parsererror, uaNodeSet) == [parsererror |-> parsererror, UANodeSet |-> uaNodeSet]

\* <Aliases> of a main document: i=2 -> AM, n:T -> AL, and two entries that are skipped
MainAliases ==
    Aliases(<<Alias(Attr(<<"A", "M">>), I2), Alias(Attr(<<"A", "L">>), NsTSpaced),
              Alias(Attr(<<>>), I1), Alias(NoAttr, I1), Alias(Attr(<<"A", "X">>), Blank)>>)

NamespaceOptions ==
    {NoNamespaceUris, NamespaceUris(<<>>), NamespaceUris(<<"">>),
     NamespaceUris(<<" ">>),
     NamespaceUris(<<"http://example.com/UA", "http://example.com/Other">>)}

MainDocs ==
    {Document(NoName, NodeSetOf(NoNamespaceUris, al, el)) :
        al \in {NoAliases, MainAliases}, el \in SeqsUpTo(ElemPool, MaxElems)}
    \cup {Document(NoName, NodeSetOf(ns, NoAliases, <<ObjA>>)) : ns \in NamespaceOptions}
    \cup {Document(NoName, NoNodeSet),                       \* well formed, not a nodeset
          Document(Name("unclosed tag"), NoNodeSet),          \* malformed
          Document(Name("unclosed tag"),                     \* malformed, partial tree kept
                   NodeSetOf(NoNamespaceUris, NoAliases, <<ObjA>>))}

\* auxiliary document: aliases i=2 -> AL and i=1 -> P1, and a node i=2 named B2
RefAliasAndName ==
    Document(NoName,
        NodeSetOf(NoNamespaceUris,
            Aliases(<<Alias(Attr(<<"A", "L">>), I2Spaced), Alias(Attr(<<"P", "1">>), I1)>>),
            <<[EmptyId EXCEPT !.NodeId = Attr(I2), !.BrowseName = Attr(<<"B", "2">>)]>>))

\* auxiliary document: aliases i=1 -> P2 and i=2 -> AK, nodes n:T named C and i=1
\* without BrowseName
RefOther ==
    Document(NoName,
        NodeSetOf(NoNamespaceUris,
            Aliases(<<Alias(Attr(<<"P", "2">>), I1), Alias(Attr(<<"A", "K">>), I2)>>),
            <<[NoId EXCEPT !.NodeId = Attr(NsT), !.BrowseName = Attr(<<"C">>)],
              [NoId EXCEPT !.NodeId = Attr(I1), !.BrowseName = NoAttr]>>))

\* auxiliary document that is not a nodeset
RefBroken == Document(Name("unclosed tag"), NoNodeSet)

RefDocs == {RefAliasAndName, RefOther, RefBroken}

FileNames == {"test.xml"}

\* documents of type definitions: what organizeIntoCategories works on

EventTypeId == <<"s", "=">> \o EventTypeText          \* a NodeId containing 'EventType'
InterfaceId == <<"s", "=">> \o InterfaceText          \* a NodeId containing 'Interface'
LowerEventTypeId == <<"e","v","e","n","t","t","y","p","e">>

PlainName == <<"P","l","a","i","n">>
MyEventName == <<"M","y","E","v","e","n","t">>
InterFaceName == <<"I","n","t","e","r","F","a","c","e">>

\* a node element with a BrowseName and references; its NodeId is given by its place
TypeElem(tag, name, refs) ==
    [tag |-> tag, NodeId |-> NoAttr, BrowseName |-> Attr(name),
     DisplayName |-> NoText, Description |-> NoText,
     DataType |-> NoAttr, ValueRank |-> NoAttr, ParentNodeId |-> NoAttr,
     References |-> refs]

OneReference(type, isForward, text) == References(<<Reference(Name(type), isForward, text)>>)

\* the References element of a UAObjectType: none, or one reference the rules look at
ObjectTypeReferences ==
    {NoReferences,
     OneReference("HasSubtype", Name("false"), EventTypeId),
     OneReference("HasSubtype", NoName, EventTypeId),
     OneReference("HasSubtype", Name("false"), InterfaceId),
     OneReference("HasSubtype", Name("true"), InterfaceId),
     OneReference("HasInterface", NoName, I1),
     OneReference("HasInterface", Name("false"), I1),
     OneReference("HasSubtype", Name("false"), I1)}

ObjectTypeElems ==
    {TypeElem("UAObjectType", name, refs) :
        name \in {PlainName, MyEventName, InterFaceName}, refs \in ObjectTypeReferences}
    \cup {TypeElem("UAObjectType", PlainName,
                   OneReference("HasComponent", Name("false"), EventTypeId)),
          TypeElem("UAObjectType", PlainName,
                   OneReference("HasSubtype", Name("false"), LowerEventTypeId))}

\* one element of every other tag; names and references that the ObjectType rules
\* would match are carried by elements that are not ObjectTypes too
OtherElems ==
    {TypeElem("UAVariableType", <<"V","T">>,
              References(<<Reference(Name("HasComponent"), NoName, I1),
                           Reference(Name("HasProperty"), NoName, I2)>>)),
     TypeElem("UAReferenceType", <<"R","T">>,
              OneReference("HasSubtype", Name("false"), EventTypeId)),
     TypeElem("UADataType", MyEventName, NoReferences),
     TypeElem("UAMethod", <<"M">>, NoReferences),
     TypeElem("UAView", InterFaceName, NoReferences),
     TypeElem("UAObject", <<"O">>, OneReference("HasInterface", NoName, I2)),
     TypeElem("UAVariable", MyEventName,
              OneReference("HasSubtype", Name("false"), InterfaceId))}

TypePool == ObjectTypeElems \cup OtherElems

DigitChars == <<"1", "2", "3", "4", "5", "6", "7", "8", "9">>
PosId(i) == <<"i", "=", DigitChars[i]>>

\* the elements el, the i-th with NodeId "i=<i>"
Numbered(el) == [i \in 1..Len(el) |-> [el[i] EXCEPT !.NodeId = Attr(PosId(i))]]

TypeDocs ==
    {Document(NoName, NodeSetOf(NoNamespaceUris, NoAliases, Numbered(el))) :
        el \in SeqsUpTo(TypePool, MaxElems)}

TypeArgs ==
    {[xmlContent |-> d, fileName |-> "test.xml", referenceNodesets |-> <<RefOther>>] :
        d \in TypeDocs}

\* the Uri elements of the imported documents: blank texts before, between and
\* after the others, and a text with white space around it
TwoUris == NamespaceUris(<<"http://example.com/UA", "http://example.com/Other">>)
BlankFirstUri == NamespaceUris(<<"", "http://example.com/Other">>)
PaddedUris == NamespaceUris(<<"http://example.com/UA", "\n\t", " http://example.com/Padded\n">>)
OnlyBlankUri == NamespaceUris(<<" ">>)

\* the texts of the imported files, as the documents DOMParser makes of them
ImportDocs ==
    <<Document(NoName, NodeSetOf(TwoUris, NoAliases, <<ObjA>>)),
      Document(NoName, NodeSetOf(BlankFirstUri, NoAliases, <<ObjA, VarB>>)),
      Document(NoName, NodeSetOf(PaddedUris, MainAliases, <<VarB>>)),
      Document(NoName, NodeSetOf(OnlyBlankUri, NoAliases, <<[ObjA EXCEPT !.tag = "UAFoo"], TypD>>)),
      Document(NoName, NodeSetOf(NoNamespaceUris, NoAliases, <<ObjA>>)),
      Document(NoName, NodeSetOf(NamespaceUris(<<>>), NoAliases, <<ObjA>>)),
      Document(NoName, NodeSetOf(TwoUris, MainAliases, <<>>)),
      Document(NoName, NodeSetOf(TwoUris, NoAliases, <<[ObjA EXCEPT !.tag = "UAFoo"]>>)),
      Document(NoName, NodeSetOf(NoNamespaceUris, NoAliases, <<>>)),
      Document(NoName, NoNodeSet),
      Document(Name("unclosed tag"), NoNodeSet),
      Document(Name(""), NodeSetOf(TwoUris, NoAliases, <<ObjA>>)),
      Document(Name("unclosed tag"), NodeSetOf(TwoUris, NoAliases, <<ObjA>>))>>

MaxFileSize == 10        \* the maxFileSize of the component, in the unit of the sizes below

File(name, size, lastModified, text) ==
    [name |-> name, size |-> size, lastModified |-> lastModified, text |-> text]

\* the files handed to the component: every text under a name, the same text
\* under another name, a file that is too large and one that is no XML file
ImportFiles ==
    {File("a.xml", 7, 1, ImportDocs[i]) : i \in 1..Len(ImportDocs)}
    \cup {File("b.xml", 7, 2, ImportDocs[i]) : i \in 1..3}
    \cup {File("big.xml", 11, 1, ImportDocs[1]), File("readme.txt", 5, 1, ImportDocs[10]),
          File("big.txt", 11, 1, ImportDocs[10])}

\* the reference nodesets the component hands to parseNodesetFile
ImportReferences == {<<>>, <<RefOther>>}

NamespaceConflictStrategies == {"merge", "rename", "reject", "warn"}

\* Reference elements: every ReferenceType of parseNode, absent and empty, under
\* every kind of IsForward, and texts that are trimmed, blank or empty
MaxRefs == 2        \* Reference elements of a node

ReferenceTypePool ==
    {NoName, Name(""), Name("HasSubtype"), Name("HasTypeDefinition"), Name("HasModellingRule")}
IsForwardPool == {NoName, Name("false"), Name("False")}

ReferencePool ==
    {Reference(t, f, NsTSpaced) : t \in ReferenceTypePool, f \in IsForwardPool}
    \cup {Reference(Name("HasSubtype"), Name("false"), I2),
          Reference(Name("HasTypeDefinition"), Name("true"), I2),
          Reference(Name("HasModellingRule"), Name(""), I2),
          Reference(NoName, NoName, Blank),
          Reference(Name("HasSubtype"), Name("false"), <<>>)}

\* documents of one node with up to MaxRefs Reference elements, or without a
\* References element
ReferenceDocs ==
    {Document(NoName, NodeSetOf(NoNamespaceUris, NoAliases,
                                <<[ObjA EXCEPT !.References = References(refs)]>>)) :
        refs \in SeqsUpTo(ReferencePool, MaxRefs)}
    \cup {Document(NoName, NodeSetOf(NoNamespaceUris, NoAliases,
                                     <<[ObjA EXCEPT !.References = NoReferences]>>))}

\* elements that share the NodeId i=1 under three tags, two of them under the
\* same tag, and a variable i=2 that refers to i=1
PlainType ==
    [TypeElem("UAObjectType", PlainName, OneReference("HasComponent", NoName, I2))
        EXCEPT !.NodeId = Attr(I1)]
SameIdPool == {ObjA, TypD, [TypD EXCEPT !.BrowseName = Attr(<<"D", "2">>)], PlainType, VarB}

SameIdDocs ==
    {Document(NoName, NodeSetOf(NoNamespaceUris, NoAliases, el)) :
        el \in SeqsUpTo(SameIdPool, MaxElems + 1)}

\* auxiliary documents that are no nodeset: well formed without UANodeSet, and
\* malformed with the tree kept up to the error, which holds the alias i=2 -> AQ
\* and a node i=1 named Q1
RefNoRoot == Document(NoName, NoNodeSet)
RefPartial ==
    Document(Name("unclosed tag"),
        NodeSetOf(NoNamespaceUris,
            Aliases(<<Alias(Attr(<<"A", "Q">>), I2)>>),
            <<[NoId EXCEPT !.NodeId = Attr(I1), !.BrowseName = Attr(<<"Q", "1">>)]>>))

AuxPool == {RefOther, RefBroken, RefNoRoot, RefPartial}
AuxLists == SeqsUpTo(AuxPool, MaxAux)
AuxMainDocs ==
    {Document(NoName, NodeSetOf(NoNamespaceUris, NoAliases, el)) :
        el \in {<<VarB>>, <<ObjA, VarB>>}}

\* the argument lists of the calls: every main document with every list of
\* auxiliary documents, and a call that leaves fileName out
CallArgs ==
    {[xmlContent |-> d, fileName |-> f, referenceNodesets |-> r] :
        d \in MainDocs, f \in FileNames, r \in SeqsUpTo(RefDocs, MaxAux)}
    \cup {[xmlContent |-> Document(NoName, NodeSetOf(NoNamespaceUris, NoAliases, <<ObjA>>)),
           fileName |-> Undefined, referenceNodesets |-> <<>>]}

-----------------------------------------------------------------------------
(* FileImportServiceImpl: the services around the parser                    *)

\* the white space and the other runs of characters of an element's text: the
\* texts of the Uri elements are opaque strings, cut here where trim() looks
TextRuns(text) ==
    CASE text = "" -> <<>>
      [] text = " " -> <<" ">>
      [] text = "\n\t" -> <<"\n", "\t">>
      [] text = " http://example.com/Padded\n" -> <<" ", "http://example.com/Padded", "\n">>
      [] OTHER -> <<text>>

RECURSIVE JoinRuns(_)
JoinRuns(runs) == IF runs = <<>> THEN "" ELSE Head(runs) \o JoinRuns(Tail(runs))

\* String.prototype.trim on the text of an element
TrimText(text) == JoinRuns(Trim(TextRuns(text)))

ValidationError(message, code, details) ==
    [message |-> message, code |-> code, details |-> details]

RecognizedNodeElements ==
    {"UAObject", "UAVariable", "UAMethod", "UAObjectType", "UAVariableType",
     "UAReferenceType", "UADataType", "UAView"}

\* uaNodeSet?.querySelectorAll('UAObject,UAVariable,...')
nodeElements(uaNodeSet) ==
    SelectSeq(uaNodeSet.elems, LAMBDA e : e.tag \in RecognizedNodeElements)

validateXML_NoNodeCheck(doc) ==
    IF doc.parsererror.has
    THEN [isValid |-> FALSE,
          errors |-> <<ValidationError("XML parsing error", "PARSE_ERROR",
                          IF doc.parsererror.v # "" THEN doc.parsererror.v
                          ELSE Undefined)>>,
          warnings |-> <<>>]
    ELSE LET uaNodeSet == doc.UANodeSet
             e1 == IF ~uaNodeSet.has
                   THEN <<ValidationError("Missing UANodeSet root element",
                                          "MISSING_ELEMENTS", Undefined)>>
                   ELSE <<>>
             namespaceUris == IF uaNodeSet.has THEN uaNodeSet.NamespaceUris.Uri ELSE <<>>
             e2 == IF Len(namespaceUris) = 0
                   THEN <<ValidationError("Missing NamespaceUris section",
                                          "MISSING_ELEMENTS", Undefined)>>
                   ELSE <<>>
             errors == e1 \o e2
         IN  [isValid |-> Len(errors) = 0, errors |-> errors, warnings |-> <<>>]

\* validateXML: the document of DOMParser.parseFromString(xmlContent) checked
\* for a parser error, the UANodeSet element, its Uri elements and its nodes
validateXML(doc) ==
    IF doc.parsererror.has
    THEN [isValid |-> FALSE,
          errors |-> <<ValidationError("XML parsing error", "PARSE_ERROR",
                          IF doc.parsererror.v # "" THEN doc.parsererror.v
                          ELSE Undefined)>>,
          warnings |-> <<>>]
    ELSE LET uaNodeSet == doc.UANodeSet
             e1 == IF ~uaNodeSet.has
                   THEN <<ValidationError("Missing UANodeSet root element",
                                          "MISSING_ELEMENTS", Undefined)>>
                   ELSE <<>>
             namespaceUris == IF uaNodeSet.has THEN uaNodeSet.NamespaceUris.Uri ELSE <<>>
             e2 == IF Len(namespaceUris) = 0
                   THEN <<ValidationError("Missing NamespaceUris section",
                                          "MISSING_ELEMENTS", Undefined)>>
                   ELSE <<>>
             e3 == IF ~uaNodeSet.has \/ Len(nodeElements(uaNodeSet)) = 0
                   THEN <<ValidationError("Nodeset contains no node definitions",
                                          "MISSING_ELEMENTS", Undefined)>>
                   ELSE <<>>
             errors == e1 \o e2 \o e3
         IN  [isValid |-> Len(errors) = 0, errors |-> errors, warnings |-> <<>>]

detectDuplicate_Member(sum, loaded) == sum.v \in loaded

\* detectDuplicate: false for a missing or empty checksum, else Set.has
detectDuplicate(sum, loaded) ==
    IF ~TruthyName(sum) THEN FALSE ELSE sum.v \in loaded

\* extractNamespaces: the Uri elements with a non-blank text, each under the
\* position forEach hands to its callback
extractNamespaces(doc) ==
    LET uriElements == IF doc.UANodeSet.has THEN doc.UANodeSet.NamespaceUris.Uri ELSE <<>>
        positions == SelectSeq([i \in 1..Len(uriElements) |-> i],
                               LAMBDA i : TrimText(uriElements[i]) # "")
    IN  [k \in 1..Len(positions) |->
            [index |-> positions[k] - 1, uri |-> TrimText(uriElements[positions[k]])]]

\* extractMetadata: loadedAt, the time of the call, is left out
extractMetadata(doc, nodeset, importedFile, sum) ==
    [id |-> importedFile.name \o "-" \o ToString(importedFile.size) \o "-"
                \o ToString(importedFile.lastModified),
     name |-> importedFile.name,
     fileName |-> importedFile.name,
     filePath |-> Undefined,
     fileSize |-> importedFile.size,
     namespaces |-> extractNamespaces(doc),
     nodeCount |-> Len(nodeset.nodes),
     checksum |-> sum,
     namespaceUri |-> nodeset.namespaceUri]

NoValue == [has |-> FALSE, v |-> <<>>]
Value(v) == [has |-> TRUE, v |-> v]

\* a service call or a callback of the component
Event(op, code, sum, loaded) == [op |-> op, code |-> code, checksum |-> sum, loaded |-> loaded]
ServiceCall(op) == Event(op, "", NoName, {})
OnError(code) == Event("onError", code, NoName, {})

\* no import has started
NoImport ==
    /\ importPc = "idle"
    /\ currentFile = File("", 0, 0, Document(NoName, NoNodeSet))
    /\ validation = NoValue
    /\ checksum = NoName
    /\ isDuplicate = NoValue
    /\ loadedChecksums = {}
    /\ loadedNamespaces = {}
    /\ metadata = NoValue
    /\ events = <<>>

\* the extension of a file name
Extension(name) ==
    CASE name \in {"readme.txt", "big.txt"} -> "txt"
      [] OTHER -> "xml"

\* generateChecksum: the SHA-256 digest of the text, one per text
generateChecksum(text) ==
    "sha256-" \o ToString(CHOOSE i \in 1..Len(ImportDocs) : ImportDocs[i] = text)

-----------------------------------------------------------------------------
(* parseNodeset, step by step.  The function is async but holds no await:  *)
(* a call runs to its end before another call of the instance starts.      *)

NoResult == [fileName |-> "", namespaceUri |-> "", namespaceIndex |-> 0,
             nodes |-> <<>>, rootNodes |-> <<>>]
Pending == [kind |-> "pending", message |-> "", value |-> NoResult]
Rejected(message) == [kind |-> "error", message |-> message, value |-> NoResult]
Resolved(value) == [kind |-> "ok", message |-> "", value |-> value]

\* the value of `before` while no call is being recorded
NoMaps == [aliasMap |-> EmptyMap, nodeNameMap |-> EmptyMap]

Init ==
    /\ aliasMap = EmptyMap
    /\ nodeNameMap = EmptyMap
    /\ pc = "idle"
    /\ xmlContent = Document(NoName, NoNodeSet)
    /\ fileName = Undefined
    /\ referenceNodesets = <<>>
    /\ refIdx = 1
    /\ namespaceUri = DefaultNamespaceUri
    /\ work = <<>>
    /\ nodes = <<>>
    /\ rootNodes = <<>>
    /\ outcome = Pending
    /\ before = NoMaps
    /\ NoImport

\* fileImportService.parseNodesetFile -> nodesetParser.parseNodeset(...)
Call ==
    /\ pc = "idle"
    /\ \E args \in CallArgs :
        /\ xmlContent' = args.xmlContent
        /\ fileName' = args.fileName
        /\ referenceNodesets' = args.referenceNodesets
    /\ refIdx' = 1
    /\ namespaceUri' = DefaultNamespaceUri
    /\ work' = <<>>
    /\ nodes' = <<>>
    /\ rootNodes' = <<>>
    /\ outcome' = Pending
    /\ pc' = "refs"
    /\ UNCHANGED <<importVars, aliasMap, nodeNameMap, before>>

\* one round of referenceNodesets.forEach
ParseReference ==
    /\ pc = "refs"
    /\ refIdx <= Len(referenceNodesets)
    /\ LET refNodeSet == referenceNodesets[refIdx].UANodeSet
       IN  IF refNodeSet.has
           THEN /\ aliasMap' = parseAliases(aliasMap, refNodeSet)
                /\ nodeNameMap' = parseNodeNames(nodeNameMap, refNodeSet)
           ELSE UNCHANGED <<aliasMap, nodeNameMap>>
    /\ refIdx' = refIdx + 1
    /\ UNCHANGED <<importVars, before, pc, xmlContent, fileName, referenceNodesets, namespaceUri,
                   work, nodes, rootNodes, outcome>>

\* ParseMain without the parsererror check
ParseMain_NoCheck ==
    /\ pc = "refs"
    /\ refIdx > Len(referenceNodesets)
    /\ pc' = "process"
    /\ UNCHANGED <<importVars, before, aliasMap, nodeNameMap, xmlContent, fileName, referenceNodesets,
                   refIdx, namespaceUri, work, nodes, rootNodes, outcome>>

\* ParseMain that does not wait for the end of referenceNodesets.forEach
ParseMain_Early ==
    /\ pc = "refs"
    /\ IF xmlContent.parsererror.has
       THEN /\ outcome' = Rejected(ParseErrorPrefix \o xmlContent.parsererror.v)
            /\ pc' = "done"
       ELSE /\ pc' = "process"
            /\ UNCHANGED outcome
    /\ UNCHANGED <<importVars, before, aliasMap, nodeNameMap, xmlContent, fileName, referenceNodesets,
                   refIdx, namespaceUri, work, nodes, rootNodes>>

\* the main document is parsed and checked for a parsererror element
ParseMain ==
    /\ pc = "refs"
    /\ refIdx > Len(referenceNodesets)
    /\ IF xmlContent.parsererror.has
       THEN /\ outcome' = Rejected(ParseErrorPrefix \o xmlContent.parsererror.v)
            /\ pc' = "done"
       ELSE /\ pc' = "process"
            /\ UNCHANGED outcome
    /\ UNCHANGED <<importVars, before, aliasMap, nodeNameMap, xmlContent, fileName, referenceNodesets,
                   refIdx, namespaceUri, work, nodes, rootNodes>>

\* extractNamespaceUri that takes the last Uri element
extractNamespaceUri_Last(uaNodeSet) ==
    IF /\ uaNodeSet.NamespaceUris.has
       /\ uaNodeSet.NamespaceUris.Uri # <<>>
       /\ uaNodeSet.NamespaceUris.Uri[Len(uaNodeSet.NamespaceUris.Uri)] # ""
    THEN uaNodeSet.NamespaceUris.Uri[Len(uaNodeSet.NamespaceUris.Uri)]
    ELSE DefaultNamespaceUri

\* the namespace URI processNodeset extracts
extractNamespaceUri(uaNodeSet) ==
    IF /\ uaNodeSet.NamespaceUris.has
       /\ uaNodeSet.NamespaceUris.Uri # <<>>
       /\ uaNodeSet.NamespaceUris.Uri[1] # ""
    THEN uaNodeSet.NamespaceUris.Uri[1]
    ELSE DefaultNamespaceUri

\* the node elements of the auxiliary documents, in extraction order
RECURSIVE referenceElements(_)
referenceElements(refs) ==
    IF refs = <<>> THEN <<>>
    ELSE elementsByType(Head(refs).UANodeSet, NodeTypes) \o referenceElements(Tail(refs))

\* ProcessNodeset that enters the main document's node names in nodeNameMap too
ProcessNodeset_IndexNames ==
    /\ pc = "process"
    /\ LET uaNodeSet == xmlContent.UANodeSet
       IN  IF ~uaNodeSet.has
           THEN /\ outcome' = Rejected(MissingRootMessage)
                /\ pc' = "done"
                /\ UNCHANGED <<aliasMap, nodeNameMap, namespaceUri, work, nodes, rootNodes>>
           ELSE /\ namespaceUri' = extractNamespaceUri(uaNodeSet)
                /\ aliasMap' = parseAliases(aliasMap, uaNodeSet)
                /\ nodeNameMap' = parseNodeNames(nodeNameMap, uaNodeSet)
                /\ nodes' = <<>>
                /\ rootNodes' = <<>>
                /\ work' = elementsByType(uaNodeSet, NodeTypes)
                /\ pc' = "nodes"
                /\ UNCHANGED outcome
    /\ UNCHANGED <<importVars, before, xmlContent, fileName, referenceNodesets, refIdx>>

\* ProcessNodeset that extracts the nodes of the auxiliary documents too
ProcessNodeset_Merge ==
    /\ pc = "process"
    /\ LET uaNodeSet == xmlContent.UANodeSet
       IN  IF ~uaNodeSet.has
           THEN /\ outcome' = Rejected(MissingRootMessage)
                /\ pc' = "done"
                /\ UNCHANGED <<aliasMap, namespaceUri, work, nodes, rootNodes>>
           ELSE /\ namespaceUri' = extractNamespaceUri(uaNodeSet)
                /\ aliasMap' = parseAliases(aliasMap, uaNodeSet)
                /\ nodes' = <<>>
                /\ rootNodes' = <<>>
                /\ work' = referenceElements(referenceNodesets)
                             \o elementsByType(uaNodeSet, NodeTypes)
                /\ pc' = "nodes"
                /\ UNCHANGED outcome
    /\ UNCHANGED <<importVars, before, nodeNameMap, xmlContent, fileName, referenceNodesets, refIdx>>

\* ProcessNodeset that takes a document without UANodeSet for an empty nodeset
ProcessNodeset_NoRootCheck ==
    /\ pc = "process"
    /\ LET uaNodeSet == xmlContent.UANodeSet
       IN  /\ namespaceUri' = extractNamespaceUri(uaNodeSet)
           /\ aliasMap' = parseAliases(aliasMap, uaNodeSet)
           /\ nodes' = <<>>
           /\ rootNodes' = <<>>
           /\ work' = elementsByType(uaNodeSet, NodeTypes)
           /\ pc' = "nodes"
           /\ UNCHANGED outcome
    /\ UNCHANGED <<importVars, before, nodeNameMap, xmlContent, fileName, referenceNodesets, refIdx>>

\* processNodeset up to the node loops: root check, namespace URI, aliases
ProcessNodeset ==
    /\ pc = "process"
    /\ LET uaNodeSet == xmlContent.UANodeSet
       IN  IF ~uaNodeSet.has
           THEN /\ outcome' = Rejected(MissingRootMessage)
                /\ pc' = "done"
                /\ UNCHANGED <<aliasMap, namespaceUri, work, nodes, rootNodes>>
           ELSE /\ namespaceUri' = extractNamespaceUri(uaNodeSet)
                /\ aliasMap' = parseAliases(aliasMap, uaNodeSet)
                /\ nodes' = <<>>
                /\ rootNodes' = <<>>
                /\ work' = elementsByType(uaNodeSet, NodeTypes)
                /\ pc' = "nodes"
                /\ UNCHANGED outcome
    /\ UNCHANGED <<importVars, before, nodeNameMap, xmlContent, fileName, referenceNodesets, refIdx>>

\* ExtractNode that stores a node for an element without NodeId as well
ExtractNode_KeepAll ==
    /\ pc = "nodes"
    /\ work # <<>>
    /\ LET xmlNode == Head(work).xmlNode
           withId == [xmlNode EXCEPT !.NodeId = Attr(<<"?">>)]
           parsed == parseNode(aliasMap, nodeNameMap, xmlNode, Head(work).nodeType)
           forced == parseNode(aliasMap, nodeNameMap, withId, Head(work).nodeType)
       IN  nodes' = IF parsed.has THEN NodeSet(nodes, parsed.node)
                    ELSE NodeSet(nodes, [forced.node EXCEPT !.nodeId = xmlNode.NodeId.v])
    /\ work' = Tail(work)
    /\ UNCHANGED <<importVars, before, aliasMap, nodeNameMap, pc, xmlContent, fileName, referenceNodesets,
                   refIdx, namespaceUri, rootNodes, outcome>>

\* one round of nodeElements.forEach: parseNode and nodes.set
ExtractNode ==
    /\ pc = "nodes"
    /\ work # <<>>
    /\ LET parsed == parseNode(aliasMap, nodeNameMap, Head(work).xmlNode, Head(work).nodeType)
       IN  nodes' = IF parsed.has THEN NodeSet(nodes, parsed.node) ELSE nodes
    /\ work' = Tail(work)
    /\ UNCHANGED <<importVars, before, aliasMap, nodeNameMap, pc, xmlContent, fileName, referenceNodesets,
                   refIdx, namespaceUri, rootNodes, outcome>>

\* this.buildHierarchy(nodes), once every node is extracted
BuildHierarchy ==
    /\ pc = "nodes"
    /\ work = <<>>
    /\ nodes' = buildHierarchy(nodes)
    /\ pc' = "categories"
    /\ UNCHANGED <<importVars, before, aliasMap, nodeNameMap, xmlContent, fileName, referenceNodesets,
                   refIdx, namespaceUri, work, rootNodes, outcome>>

\* Return that stores the category nodes in the node map as well
Return_StoreCategories ==
    /\ pc = "categories"
    /\ rootNodes' = rootNodes \o organizeIntoCategories(nodes)
    /\ outcome' = Resolved([fileName |-> IF fileName = Undefined THEN DefaultFileName
                                         ELSE fileName,
                            namespaceUri |-> namespaceUri,
                            namespaceIndex |-> 1,
                            nodes |-> nodes \o rootNodes',
                            rootNodes |-> rootNodes'])
    /\ pc' = "done"
    /\ UNCHANGED <<importVars, before, aliasMap, nodeNameMap, xmlContent, fileName, referenceNodesets,
                   refIdx, namespaceUri, work, nodes>>

\* organizeIntoCategories, and the return of the result
Return ==
    /\ pc = "categories"
    /\ rootNodes' = rootNodes \o organizeIntoCategories(nodes)
    /\ outcome' = Resolved([fileName |-> IF fileName = Undefined THEN DefaultFileName
                                         ELSE fileName,
                            namespaceUri |-> namespaceUri,
                            namespaceIndex |-> 1,
                            nodes |-> nodes,
                            rootNodes |-> rootNodes'])
    /\ pc' = "done"
    /\ UNCHANGED <<importVars, before, aliasMap, nodeNameMap, xmlContent, fileName, referenceNodesets,
                   refIdx, namespaceUri, work, nodes>>

\* the caller has taken the settled promise; the call's frame is gone
Finish ==
    /\ pc = "done"
    /\ pc' = "idle"
    /\ xmlContent' = Document(NoName, NoNodeSet)
    /\ fileName' = Undefined
    /\ referenceNodesets' = <<>>
    /\ refIdx' = 1
    /\ namespaceUri' = DefaultNamespaceUri
    /\ work' = <<>>
    /\ nodes' = <<>>
    /\ rootNodes' = <<>>
    /\ outcome' = Pending
    /\ before' = NoMaps
    /\ UNCHANGED <<importVars, aliasMap, nodeNameMap>>

Next ==
    \/ Call
    \/ ParseReference
    \/ ParseMain
    \/ ProcessNodeset
    \/ ExtractNode
    \/ BuildHierarchy
    \/ Return
    \/ Finish

Spec == Init /\ [][Next]_vars

\* parseNodesetFile called with a document of type definitions
CallTypes ==
    /\ pc = "idle"
    /\ \E args \in TypeArgs :
        /\ xmlContent' = args.xmlContent
        /\ fileName' = args.fileName
        /\ referenceNodesets' = args.referenceNodesets
    /\ refIdx' = 1
    /\ namespaceUri' = DefaultNamespaceUri
    /\ work' = <<>>
    /\ nodes' = <<>>
    /\ rootNodes' = <<>>
    /\ outcome' = Pending
    /\ pc' = "refs"
    /\ UNCHANGED <<importVars, aliasMap, nodeNameMap, before>>

NextTypes ==
    \/ CallTypes
    \/ ParseReference
    \/ ParseMain
    \/ ProcessNodeset
    \/ ExtractNode
    \/ BuildHierarchy
    \/ Return
    \/ Finish

\* the parser on documents of type definitions
SpecTypes == Init /\ [][NextTypes]_vars

\* Call, with the instance maps of the moment kept in `before`
CallRecorded ==
    /\ pc = "idle"
    /\ \E args \in CallArgs :
        /\ xmlContent' = args.xmlContent
        /\ fileName' = args.fileName
        /\ referenceNodesets' = args.referenceNodesets
    /\ refIdx' = 1
    /\ namespaceUri' = DefaultNamespaceUri
    /\ work' = <<>>
    /\ nodes' = <<>>
    /\ rootNodes' = <<>>
    /\ outcome' = Pending
    /\ pc' = "refs"
    /\ before' = [aliasMap |-> aliasMap, nodeNameMap |-> nodeNameMap]
    /\ UNCHANGED <<importVars, aliasMap, nodeNameMap>>

NextRecorded ==
    \/ CallRecorded
    \/ ParseReference
    \/ ParseMain
    \/ ProcessNodeset
    \/ ExtractNode
    \/ BuildHierarchy
    \/ Return
    \/ Finish

\* the parser of Spec, each call remembering the maps it started with
SpecRecorded == Init /\ [][NextRecorded]_vars

\* parseNode applied to any pair of an element and a node type: tags outside the
\* list of processNodeset, which getNodeClass provides for
TagInputs ==
    {NodeTypes[i] : i \in 1..Len(NodeTypes)}
    \cup {"UAFoo", "uaobject", "constructor", "toString", "__proto__"}

TaggedElems == {[e EXCEPT !.tag = t] : e \in {ObjA, TypD}, t \in TagInputs}

\* the node loop of processNodeset entered with one element under its own tag
InitNodeClass ==
    /\ aliasMap = EmptyMap
    /\ nodeNameMap = EmptyMap
    /\ pc = "nodes"
    /\ xmlContent \in {Document(NoName, NodeSetOf(NoNamespaceUris, NoAliases, <<e>>)) :
                          e \in TaggedElems}
    /\ fileName = "test.xml"
    /\ referenceNodesets = <<>>
    /\ refIdx = 1
    /\ namespaceUri = DefaultNamespaceUri
    /\ work = <<[nodeType |-> xmlContent.UANodeSet.elems[1].tag,
                 xmlNode |-> xmlContent.UANodeSet.elems[1]]>>
    /\ nodes = <<>>
    /\ rootNodes = <<>>
    /\ outcome = Pending
    /\ before = NoMaps
    /\ NoImport

\* getNodeClass on every tag, then the parser as in Spec
SpecNodeClass == InitNodeClass /\ [][Next]_vars

-----------------------------------------------------------------------------
(* FileImport.handleExternalFiles: the import of one file after the other.   *)
(* The documents of the model hold no RequiredModel element, so the check    *)
(* for required models passes; the renaming of a conflicting namespace in    *)
(* the metadata is left out.                                                 *)

\* the next file of handleExternalFiles
StartImport ==
    /\ importPc \in {"idle", "settled"}
    /\ pc = "idle"
    /\ \E f \in ImportFiles : currentFile' = f
    /\ importPc' = "check"
    /\ validation' = NoValue
    /\ checksum' = NoName
    /\ isDuplicate' = NoValue
    /\ metadata' = NoValue
    /\ events' = <<>>
    /\ UNCHANGED <<parserVars, loadedChecksums, loadedNamespaces>>

\* the size and the format of the file
CheckFile ==
    /\ importPc = "check"
    /\ LET tooLarge == currentFile.size > MaxFileSize
           unsupported == Extension(currentFile.name) # "xml"
       IN  \/ /\ tooLarge
              /\ events' = Append(events, OnError("FILE_TOO_LARGE"))
              /\ importPc' = "settled"
           \/ /\ unsupported
              /\ events' = Append(events, OnError("INVALID_FORMAT"))
              /\ importPc' = "settled"
           \/ /\ ~tooLarge /\ ~unsupported
              /\ events' = events
              /\ importPc' = "validate"
    /\ UNCHANGED <<parserVars, currentFile, validation, checksum, isDuplicate,
                   loadedChecksums, loadedNamespaces, metadata>>

ValidateFile_Ungated ==
    /\ importPc = "validate"
    /\ validation' = Value(validateXML(currentFile.text))
    /\ events' = Append(events, ServiceCall("validateXML"))
    /\ importPc' = "checksum"
    /\ UNCHANGED <<parserVars, currentFile, checksum, isDuplicate,
                   loadedChecksums, loadedNamespaces, metadata>>

\* validateXML on the text of the file; an invalid file is reported and left
ValidateFile ==
    /\ importPc = "validate"
    /\ validation' = Value(validateXML(currentFile.text))
    /\ IF validation'.v.isValid
       THEN /\ events' = Append(events, ServiceCall("validateXML"))
            /\ importPc' = "checksum"
       ELSE /\ events' = events \o <<ServiceCall("validateXML"), OnError("INVALID_FORMAT")>>
            /\ importPc' = "settled"
    /\ UNCHANGED <<parserVars, currentFile, checksum, isDuplicate,
                   loadedChecksums, loadedNamespaces, metadata>>

\* await generateChecksum: the digest, or a rejection that ends the import
GenerateChecksum ==
    /\ importPc = "checksum"
    /\ \/ /\ checksum' = Name(generateChecksum(currentFile.text))
          /\ events' = Append(events, ServiceCall("generateChecksum"))
          /\ importPc' = "duplicate"
       \/ /\ checksum' = NoName
          /\ events' = events \o <<ServiceCall("generateChecksum"), OnError("PARSE_ERROR")>>
          /\ importPc' = "settled"
    /\ UNCHANGED <<parserVars, currentFile, validation, isDuplicate,
                   loadedChecksums, loadedNamespaces, metadata>>

DetectDuplicate_Ungated ==
    /\ importPc = "duplicate"
    /\ isDuplicate' = Value(detectDuplicate(checksum, loadedChecksums))
    /\ events' = Append(events, Event("detectDuplicate", "", checksum, loadedChecksums))
    /\ importPc' = "parse"
    /\ UNCHANGED <<parserVars, currentFile, validation, checksum,
                   loadedChecksums, loadedNamespaces, metadata>>

\* detectDuplicate with the checksum and the checksums loaded so far
DetectDuplicate ==
    /\ importPc = "duplicate"
    /\ isDuplicate' = Value(detectDuplicate(checksum, loadedChecksums))
    /\ IF isDuplicate'.v
       THEN /\ events' = events \o <<Event("detectDuplicate", "", checksum, loadedChecksums),
                                     OnError("DUPLICATE")>>
            /\ importPc' = "settled"
       ELSE /\ events' = Append(events, Event("detectDuplicate", "", checksum, loadedChecksums))
            /\ importPc' = "parse"
    /\ UNCHANGED <<parserVars, currentFile, validation, checksum,
                   loadedChecksums, loadedNamespaces, metadata>>

\* fileImportService.parseNodesetFile(xmlContent, file.name, referenceNodesets)
CallImport ==
    /\ importPc = "parse"
    /\ pc = "idle"
    /\ xmlContent' = currentFile.text
    /\ fileName' = currentFile.name
    /\ \E r \in ImportReferences : referenceNodesets' = r
    /\ refIdx' = 1
    /\ namespaceUri' = DefaultNamespaceUri
    /\ work' = <<>>
    /\ nodes' = <<>>
    /\ rootNodes' = <<>>
    /\ outcome' = Pending
    /\ pc' = "refs"
    /\ events' = Append(events, ServiceCall("parseNodesetFile"))
    /\ importPc' = "parsing"
    /\ UNCHANGED <<aliasMap, nodeNameMap, before, currentFile, validation, checksum,
                   isDuplicate, loadedChecksums, loadedNamespaces, metadata>>

\* the promise of parseNodesetFile settles: a rejection is reported; else the
\* metadata is extracted, a conflicting namespace is rejected under the REJECT
\* strategy, and the nodeset is handed to onNodesetLoaded and remembered
SettleImport ==
    /\ importPc = "parsing"
    /\ pc = "done"
    /\ IF outcome.kind = "error"
       THEN /\ events' = Append(events, OnError("PARSE_ERROR"))
            /\ UNCHANGED <<metadata, loadedChecksums, loadedNamespaces>>
       ELSE /\ metadata' = Value(extractMetadata(currentFile.text, outcome.value,
                                                 currentFile, checksum))
            /\ \E strategy \in NamespaceConflictStrategies :
                  IF outcome.value.namespaceUri \in loadedNamespaces /\ strategy = "reject"
                  THEN /\ events' = events \o <<ServiceCall("extractMetadata"),
                                                OnError("NAMESPACE_CONFLICT")>>
                       /\ UNCHANGED <<loadedChecksums, loadedNamespaces>>
                  ELSE /\ events' = events \o <<ServiceCall("extractMetadata"),
                                                ServiceCall("onNodesetLoaded")>>
                       /\ loadedChecksums' = loadedChecksums
                              \cup (IF checksum.has THEN {checksum.v} ELSE {})
                       /\ loadedNamespaces' =
                              loadedNamespaces \cup {outcome.value.namespaceUri}
    /\ importPc' = "settled"
    /\ pc' = "idle"
    /\ xmlContent' = Document(NoName, NoNodeSet)
    /\ fileName' = Undefined
    /\ referenceNodesets' = <<>>
    /\ refIdx' = 1
    /\ namespaceUri' = DefaultNamespaceUri
    /\ work' = <<>>
    /\ nodes' = <<>>
    /\ rootNodes' = <<>>
    /\ outcome' = Pending
    /\ UNCHANGED <<aliasMap, nodeNameMap, before, currentFile, validation, checksum,
                   isDuplicate>>

NextImport ==
    \/ StartImport
    \/ CheckFile
    \/ ValidateFile
    \/ GenerateChecksum
    \/ DetectDuplicate
    \/ CallImport
    \/ ParseReference
    \/ ParseMain
    \/ ProcessNodeset
    \/ ExtractNode
    \/ BuildHierarchy
    \/ Return
    \/ SettleImport

\* the files of ImportFiles imported one after the other, in any order
SpecImport == Init /\ [][NextImport]_vars

\* the checksums and the sets detectDuplicate is applied to: a missing and an
\* empty checksum, and sets that hold the empty string
DuplicateChecksums == {NoName, Name(""), Name("sha256-1"), Name("sha256-2")}
LoadedSets == SUBSET {"", "sha256-1", "sha256-3"}

\* the import of a file about to call detectDuplicate
InitDuplicate ==
    /\ aliasMap = EmptyMap
    /\ nodeNameMap = EmptyMap
    /\ pc = "idle"
    /\ xmlContent = Document(NoName, NoNodeSet)
    /\ fileName = Undefined
    /\ referenceNodesets = <<>>
    /\ refIdx = 1
    /\ namespaceUri = DefaultNamespaceUri
    /\ work = <<>>
    /\ nodes = <<>>
    /\ rootNodes = <<>>
    /\ outcome = Pending
    /\ before = NoMaps
    /\ importPc = "duplicate"
    /\ currentFile \in {File("a.xml", 7, 1, ImportDocs[i]) : i \in 1..2}
    /\ validation = Value(validateXML(currentFile.text))
    /\ checksum \in DuplicateChecksums
    /\ isDuplicate = NoValue
    /\ loadedChecksums \in LoadedSets
    /\ loadedNamespaces = {}
    /\ metadata = NoValue
    /\ events = <<ServiceCall("validateXML"), ServiceCall("generateChecksum")>>

\* detectDuplicate on every checksum and set, then the import as in SpecImport
SpecDuplicate == InitDuplicate /\ [][NextImport]_vars

\* a call of parseNodeset that has just started
Started(docs, refs) ==
    /\ pc = "refs"
    /\ xmlContent \in docs
    /\ fileName = "test.xml"
    /\ referenceNodesets = refs
    /\ refIdx = 1
    /\ namespaceUri = DefaultNamespaceUri
    /\ work = <<>>
    /\ nodes = <<>>
    /\ rootNodes = <<>>
    /\ outcome = Pending
    /\ before = NoMaps
    /\ NoImport

\* one call of parseNodeset from its start to its result
NextParse ==
    \/ ParseReference
    \/ ParseMain
    \/ ProcessNodeset
    \/ ExtractNode
    \/ BuildHierarchy
    \/ Return

\* a new parser called with a document of one node and its references
InitReferences ==
    /\ aliasMap = EmptyMap
    /\ nodeNameMap = EmptyMap
    /\ Started(ReferenceDocs, <<RefOther>>)

SpecReferences == InitReferences /\ [][NextParse]_vars

\* a new parser called with a document whose elements share a NodeId
InitSameId ==
    /\ aliasMap = EmptyMap
    /\ nodeNameMap = EmptyMap
    /\ Started(SameIdDocs, <<RefOther>>)

SpecSameId == InitSameId /\ [][NextParse]_vars

\* a new parser called with auxiliary documents of which some are no nodeset
InitAux ==
    /\ aliasMap = EmptyMap
    /\ nodeNameMap = EmptyMap
    /\ \E refs \in AuxLists : Started(AuxMainDocs, refs)

SpecAux == InitAux /\ [][NextParse]_vars

-----------------------------------------------------------------------------
(* A whole call of parseNodeset as a function of the instance maps it      *)
(* starts with: the same steps as the actions above, composed.             *)

RECURSIVE mapsAfterReferences(_, _, _)
mapsAfterReferences(am, nm, refs) ==
    IF refs = <<>> THEN [aliasMap |-> am, nodeNameMap |-> nm]
    ELSE LET refNodeSet == Head(refs).UANodeSet
         IN  IF refNodeSet.has
             THEN mapsAfterReferences(parseAliases(am, refNodeSet),
                                      parseNodeNames(nm, refNodeSet), Tail(refs))
             ELSE mapsAfterReferences(am, nm, Tail(refs))

RECURSIVE extractNodes(_, _, _, _)
extractNodes(am, nm, items, nodeMap) ==
    IF items = <<>> THEN nodeMap
    ELSE LET parsed == parseNode(am, nm, Head(items).xmlNode, Head(items).nodeType)
         IN  extractNodes(am, nm, Tail(items),
                          IF parsed.has THEN NodeSet(nodeMap, parsed.node) ELSE nodeMap)

\* what parseNodeset(xml, file, refs) settles to on an instance whose maps are am and nm
parseNodeset(am, nm, xml, file, refs) ==
    LET maps == mapsAfterReferences(am, nm, refs)
        uaNodeSet == xml.UANodeSet
    IN  IF xml.parsererror.has THEN Rejected(ParseErrorPrefix \o xml.parsererror.v)
        ELSE IF ~uaNodeSet.has THEN Rejected(MissingRootMessage)
        ELSE LET extracted == extractNodes(parseAliases(maps.aliasMap, uaNodeSet),
                                           maps.nodeNameMap,
                                           elementsByType(uaNodeSet, NodeTypes), <<>>)
                 built == buildHierarchy(extracted)
             IN  Resolved([fileName |-> IF file = Undefined THEN DefaultFileName ELSE file,
                           namespaceUri |-> extractNamespaceUri(uaNodeSet),
                           namespaceIndex |-> 1,
                           nodes |-> built,
                           rootNodes |-> organizeIntoCategories(built)])

-----------------------------------------------------------------------------
(* Vocabulary of the properties *)

\* the node ids the documents of the model mention, all non-empty
NodeIdPool == {I1, I2, NsT, NsEnd, I2Spaced, <<"i", "=", "9">>, <<":", "a", ":", "b">>}

\* the text after the last colon of s (s itself when it has no colon)
AfterLastColon(s) ==
    LET colons == {i \in 1..Len(s) : s[i] = ":"}
        last == IF colons = {} THEN 0 ELSE CHOOSE i \in colons : \A j \in colons : j <= i
    IN  SubSeq(s, last + 1, Len(s))

\* the resolution order of the specification, on the maps am and nm
ResolvedBySpec(am, nm, X) ==
    IF X \in DOMAIN am THEN am[X]
    ELSE IF X \in DOMAIN nm THEN nm[X]
    ELSE IF AfterLastColon(X) # <<>> THEN AfterLastColon(X)
    ELSE X

Succeeded == pc = "done" /\ outcome.kind = "ok"
Failed == pc = "done" /\ outcome.kind = "error"

\* the five resolved names of every node of a result
ResolvedNames(result) ==
    [i \in 1..Len(result.value.nodes) |->
        LET n == result.value.nodes[i]
        IN  <<n.nodeId, n.dataType, n.type, n.typeDefinition, n.modellingRule,
              n.derivedFrom>>]

-----------------------------------------------------------------------------
(* C1: resolveNodeId(X), for every non-empty X and whatever the two maps   *)
(* hold, is aliasMap[X] when X is an alias key (also when it is a node     *)
(* name key too), else nodeNameMap[X] when X is a node name key, else the  *)
(* text after the last colon of X, else X.                                 *)
C1_ResolutionOrder ==
    \A X \in NodeIdPool :
        resolveNodeId(aliasMap, nodeNameMap, X) = ResolvedBySpec(aliasMap, nodeNameMap, X)

\* a node was resolved through an alias whose key is a node name key too,
\* another through a node name, and the maps leave the two fallbacks open
C1_Witness ==
    /\ Succeeded
    /\ I2 \in DOMAIN aliasMap /\ I2 \in DOMAIN nodeNameMap
    /\ aliasMap[I2] # nodeNameMap[I2]
    /\ NsT \in DOMAIN nodeNameMap /\ NsT \notin DOMAIN aliasMap
    /\ \E i, j \in 1..Len(nodes) :
          /\ nodes[i].dataType = Attr(aliasMap[I2])
          /\ nodes[j].typeDefinition = Attr(nodeNameMap[NsT])
          /\ nodes[i].modellingRule = Attr(NsEnd)

(* C2: through the shared instance, the resolved names of each call's      *)
(* result are those a fresh parser returns for the same arguments.         *)
C2_NoLeakAcrossParses ==
    Succeeded =>
        ResolvedNames(outcome)
          = ResolvedNames(parseNodeset(EmptyMap, EmptyMap, xmlContent, fileName,
                                       referenceNodesets))

-----------------------------------------------------------------------------
(* What the documents of the running call declare *)

MainNodeSet == xmlContent.UANodeSet

\* the valid Alias entries of a document for the key k, in document order
AliasEntries(doc, k) ==
    IF doc.UANodeSet.has /\ doc.UANodeSet.Aliases.has
    THEN SelectSeq(doc.UANodeSet.Aliases.Alias,
                   LAMBDA a : a.Alias.has /\ a.Alias.v # <<>> /\ Trim(a.text) = k)
    ELSE <<>>
DeclaresAlias(doc, k) == AliasEntries(doc, k) # <<>>
LastAliasName(doc, k) == AliasEntries(doc, k)[Len(AliasEntries(doc, k))].Alias.v

\* the browse names a document gives to the node id k
NamesOf(doc, k) ==
    IF doc.UANodeSet.has
    THEN {doc.UANodeSet.elems[i].BrowseName.v : i \in
            {j \in 1..Len(doc.UANodeSet.elems) :
                /\ doc.UANodeSet.elems[j].NodeId = Attr(k)
                /\ doc.UANodeSet.elems[j].BrowseName.has
                /\ doc.UANodeSet.elems[j].BrowseName.v # <<>>}}
    ELSE {}

AuxDeclaringAlias(k) ==
    {i \in 1..Len(referenceNodesets) : DeclaresAlias(referenceNodesets[i], k)}
AuxNaming(k) ==
    {i \in 1..Len(referenceNodesets) : NamesOf(referenceNodesets[i], k) # {}}
Last(S) == CHOOSE i \in S : \A j \in S : j <= i
AliasedOnlyInAux(k) == AuxDeclaringAlias(k) # {} /\ ~DeclaresAlias(xmlContent, k)

\* the position of a tag in the order the tags are extracted
TagRank(tag) == CHOOSE r \in 1..Len(NodeTypes) : NodeTypes[r] = tag

\* the main-document elements that carry the NodeId id
ElementsWithId(id) ==
    {i \in 1..Len(MainNodeSet.elems) : MainNodeSet.elems[i].NodeId = Attr(id)}

\* the main-document element extracted last among those with the NodeId id
SourceOf(id) ==
    LET S == ElementsWithId(id)
        Before(i, j) ==
            \/ TagRank(MainNodeSet.elems[i].tag) < TagRank(MainNodeSet.elems[j].tag)
            \/ /\ MainNodeSet.elems[i].tag = MainNodeSet.elems[j].tag
               /\ i < j
    IN  MainNodeSet.elems[CHOOSE i \in S : \A j \in S \ {i} : Before(j, i)]

AuxDone == pc \in {"process", "nodes", "categories"} \/ Succeeded
AliasesDone == pc \in {"nodes", "categories"} \/ Succeeded
AllExtracted == pc = "categories" \/ Succeeded

(* C3: when the main document is reached, the aliases and the (NodeId,     *)
(* BrowseName) pairs of every auxiliary document are in the symbol table,  *)
(* the documents taken in the order supplied; a DataType of the main       *)
(* document aliased only in auxiliary documents resolves to that alias.    *)
C3_AuxBeforeMain ==
    /\ AuxDone =>
          \A k \in NodeIdPool :
             /\ AuxDeclaringAlias(k) # {} => k \in DOMAIN aliasMap
             /\ AuxNaming(k) # {} =>
                   /\ k \in DOMAIN nodeNameMap
                   /\ nodeNameMap[k] \in NamesOf(referenceNodesets[Last(AuxNaming(k))], k)
    /\ AllExtracted =>
          \A i \in 1..Len(nodes) :
             LET dataType == SourceOf(nodes[i].nodeId).DataType
             IN  dataType.has /\ AliasedOnlyInAux(dataType.v) =>
                    nodes[i].dataType =
                       Attr(LastAliasName(
                              referenceNodesets[Last(AuxDeclaringAlias(dataType.v))],
                              dataType.v))

\* two auxiliary documents alias i=2 differently, the main document does not, and
\* its variable i=2 got the alias of the second one as its dataType
C3_Witness ==
    /\ Succeeded
    /\ referenceNodesets = <<RefOther, RefAliasAndName>>
    /\ ~DeclaresAlias(xmlContent, I2)
    /\ \E i \in 1..Len(nodes) :
          /\ SourceOf(nodes[i].nodeId).DataType = Attr(I2)
          /\ nodes[i].dataType = Attr(<<"A", "L">>)
    /\ nodeNameMap[NsT] = <<"C">>

\* the target of the first reference of a node with the given type and direction
FirstTarget(node, type, forward) ==
    LET found == SelectSeq(node.references,
                           LAMBDA r : r.referenceType = type /\ r.isForward = forward)
    IN  IF found = <<>> THEN NoAttr ELSE Attr(found[1].targetNodeId)

\* the raw node id behind each resolved name of a result node, when it has one
RawIds(node) ==
    [dataType |-> SourceOf(node.nodeId).DataType,
     type |-> SourceOf(node.nodeId).ParentNodeId,
     typeDefinition |-> FirstTarget(node, "HasTypeDefinition", TRUE),
     modellingRule |-> FirstTarget(node, "HasModellingRule", TRUE),
     derivedFrom |-> FirstTarget(node, "HasSubtype", FALSE)]

ResolvedFields == {"dataType", "type", "typeDefinition", "modellingRule", "derivedFrom"}

(* C4: alias insertion is last write wins with the main document last: a   *)
(* key declared in the main document has the main document's name in every *)
(* resolution of the main document's nodes, and a key declared only in     *)
(* auxiliary documents has the name of the last one that declares it.      *)
C4_LastWriteWins ==
    /\ AliasesDone =>
          \A k \in NodeIdPool :
             /\ DeclaresAlias(xmlContent, k) =>
                   k \in DOMAIN aliasMap /\ aliasMap[k] = LastAliasName(xmlContent, k)
             /\ AliasedOnlyInAux(k) =>
                   /\ k \in DOMAIN aliasMap
                   /\ aliasMap[k] =
                        LastAliasName(referenceNodesets[Last(AuxDeclaringAlias(k))], k)
    /\ AllExtracted =>
          \A i \in 1..Len(nodes) : \A f \in ResolvedFields :
             LET raw == RawIds(nodes[i])[f]
             IN  raw.has /\ raw.v # <<>> /\ DeclaresAlias(xmlContent, raw.v) =>
                    nodes[i][f] = Attr(LastAliasName(xmlContent, raw.v))

\* i=2 is aliased AK, then AL by the auxiliary documents and AM by the main one, i=1
\* P2, then P1 by the auxiliary documents only: the variable i=2 of the main
\* document has dataType AM and type P1
C4_Witness ==
    /\ Succeeded
    /\ referenceNodesets = <<RefOther, RefAliasAndName>>
    /\ DeclaresAlias(xmlContent, I2)
    /\ \E i \in 1..Len(nodes) :
          /\ SourceOf(nodes[i].nodeId).DataType = Attr(I2)
          /\ SourceOf(nodes[i].nodeId).ParentNodeId = Attr(I1)
          /\ nodes[i].dataType = Attr(<<"A", "M">>)
          /\ nodes[i].type = Attr(<<"P", "1">>)

-----------------------------------------------------------------------------
\* the NodeId values of the main document's elements are pairwise distinct
DistinctNodeIds ==
    \A i, j \in 1..Len(MainNodeSet.elems) :
        /\ i # j
        /\ MainNodeSet.elems[i].NodeId.has
        /\ MainNodeSet.elems[j].NodeId.has
        => MainNodeSet.elems[i].NodeId.v # MainNodeSet.elems[j].NodeId.v

NodeKeys(nodeMap) == {nodeMap[i].nodeId : i \in 1..Len(nodeMap)}
WellFormedNodeset == ~xmlContent.parsererror.has /\ MainNodeSet.has

\* C5 as stated: one entry per element that has a NodeId attribute
C5_OneEntryPerAttribute ==
    /\ pc = "done" /\ WellFormedNodeset => outcome.kind = "ok"
    /\ Succeeded /\ DistinctNodeIds =>
          LET withId == {i \in 1..Len(MainNodeSet.elems) : MainNodeSet.elems[i].NodeId.has}
          IN  /\ NodeKeys(outcome.value.nodes)
                   = {MainNodeSet.elems[i].NodeId.v : i \in withId}
              /\ Len(outcome.value.nodes) = Cardinality(withId)

(* C5: for a main document whose elements carry pairwise distinct NodeId   *)
(* values, the node map has exactly one entry per element with a non-empty *)
(* NodeId attribute, keyed by the raw NodeId, and nothing else; an element *)
(* without NodeId, or with an empty one, is absent and the parse succeeds. *)
C5_OneEntryPerNodeId ==
    /\ pc = "done" /\ WellFormedNodeset => outcome.kind = "ok"
    /\ Succeeded /\ DistinctNodeIds =>
          LET withId == {i \in 1..Len(MainNodeSet.elems) :
                            /\ MainNodeSet.elems[i].NodeId.has
                            /\ MainNodeSet.elems[i].NodeId.v # <<>>}
          IN  /\ NodeKeys(outcome.value.nodes)
                   = {MainNodeSet.elems[i].NodeId.v : i \in withId}
              /\ Len(outcome.value.nodes) = Cardinality(withId)
              /\ <<>> \notin NodeKeys(outcome.value.nodes)

\* a parse of two elements, one with NodeId="i=2" and one with NodeId=""
C5_Witness ==
    /\ Succeeded /\ DistinctNodeIds
    /\ Len(MainNodeSet.elems) = 2
    /\ \E i, j \in 1..2 :
          /\ MainNodeSet.elems[i].NodeId = Attr(<<>>)
          /\ MainNodeSet.elems[j].NodeId = Attr(I2)
    /\ NodeKeys(outcome.value.nodes) = {I2}
    /\ Len(outcome.value.nodes) = 1

(* C6: every key of the node map is the NodeId of a node element of the    *)
(* main document, whatever the auxiliary documents hold.                   *)
C6_OnlyMainNodes ==
    /\ pc \in {"nodes", "categories"} => \A id \in NodeKeys(nodes) : ElementsWithId(id) # {}
    /\ Succeeded => \A id \in NodeKeys(outcome.value.nodes) : ElementsWithId(id) # {}

\* the auxiliary documents name i=1, i=2 and n:T; the main document has i=2 alone
C6_Witness ==
    /\ Succeeded
    /\ referenceNodesets = <<RefAliasAndName, RefOther>>
    /\ NodeKeys(outcome.value.nodes) = {I2}
    /\ NsT \in DOMAIN nodeNameMap

\* the children the specification gives a node of the map nodeMap
ExpectedChildren(nodeMap, A) ==
    LET edges == SelectSeq(A.references,
                    LAMBDA r : /\ r.referenceType \in {"HasComponent", "Organizes", "HasProperty"}
                               /\ r.isForward = TRUE
                               /\ r.targetNodeId \in NodeKeys(nodeMap))
    IN  [i \in 1..Len(edges) |-> edges[i].targetNodeId]

(* C7: after a parse, the children of every node A are exactly the map     *)
(* nodes targeted by A's forward HasComponent, Organizes and HasProperty   *)
(* references, in reference order; backward references and references of   *)
(* other types add no child.                                               *)
C7_ChildrenFromForwardReferences ==
    /\ AllExtracted => \A i \in 1..Len(nodes) :
                          nodes[i].children = ExpectedChildren(nodes, nodes[i])
    /\ Succeeded => \A i \in 1..Len(outcome.value.nodes) :
                       outcome.value.nodes[i].children
                          = ExpectedChildren(outcome.value.nodes, outcome.value.nodes[i])

\* i=1 has the children i=2 and i=1 and also a backward Organizes reference to
\* i=2; i=2 has a backward HasComponent reference to i=1 and the child i=1
C7_Witness ==
    /\ Succeeded
    /\ \E i, j \in 1..Len(outcome.value.nodes) :
          LET A == outcome.value.nodes[i]
              B == outcome.value.nodes[j]
          IN  /\ A.nodeId = I1 /\ B.nodeId = I2
              /\ A.children = <<I2, I1>>
              /\ B.children = <<I1>>
              /\ \E r \in 1..Len(A.references) :
                    A.references[r] = [referenceType |-> "Organizes", isForward |-> FALSE,
                                       targetNodeId |-> I2]
              /\ \E r \in 1..Len(B.references) :
                    B.references[r] = [referenceType |-> "HasComponent", isForward |-> FALSE,
                                       targetNodeId |-> I1]

(* C8: a well-formed main document without UANodeSet makes parseNodeset    *)
(* fail with 'Invalid nodeset format: UANodeSet element not found' and no  *)
(* result; a malformed document fails with another message.                *)
C8_MissingRoot ==
    pc = "done" =>
       /\ ~xmlContent.parsererror.has /\ ~MainNodeSet.has =>
             /\ outcome.kind = "error"
             /\ outcome.message = "Invalid nodeset format: UANodeSet element not found"
             /\ outcome.value = NoResult
       /\ xmlContent.parsererror.has =>
             /\ outcome.kind = "error"
             /\ outcome.message # "Invalid nodeset format: UANodeSet element not found"

\* a call with auxiliary documents failed for the missing root
C8_Witness ==
    /\ Failed
    /\ ~xmlContent.parsererror.has /\ ~MainNodeSet.has
    /\ referenceNodesets # <<>>
    /\ outcome.message = MissingRootMessage

(* C9: parseNodeset settles to a complete Nodeset or to an error, never to *)
(* a partial result; a malformed main document always gives the error of   *)
(* the parsererror check, which comes before the root check.               *)
C9_ResultOrError ==
    /\ pc # "done" => outcome = Pending
    /\ pc = "done" => outcome.kind \in {"ok", "error"}
    /\ Failed => outcome.value = NoResult /\ outcome.message # ""
    /\ Succeeded =>
          /\ WellFormedNodeset
          /\ work = <<>>
          /\ outcome.value = [fileName |-> outcome.value.fileName,
                              namespaceUri |-> namespaceUri,
                              namespaceIndex |-> 1,
                              nodes |-> nodes,
                              rootNodes |-> rootNodes]
          /\ \A i \in 1..Len(MainNodeSet.elems) :
                MainNodeSet.elems[i].NodeId.has /\ MainNodeSet.elems[i].NodeId.v # <<>>
                   => MainNodeSet.elems[i].NodeId.v \in NodeKeys(outcome.value.nodes)
    /\ pc = "done" /\ xmlContent.parsererror.has =>
          outcome = Rejected("Failed to parse XML: " \o xmlContent.parsererror.v)

\* a malformed main document whose partial tree holds a UANodeSet with a node
C9_Witness ==
    /\ Failed
    /\ xmlContent.parsererror.has
    /\ MainNodeSet.has /\ Len(MainNodeSet.elems) > 0
    /\ outcome.value.nodes = <<>>

(* C10: in a successful result namespaceUri is the text of the first       *)
(* NamespaceUris/Uri element of the main document when it exists with      *)
(* non-empty text and 'http://opcfoundation.org/UA/' otherwise,            *)
(* namespaceIndex is 1 and fileName is the fileName argument.              *)
C10_ResultMetadata ==
    Succeeded =>
       LET uris == MainNodeSet.NamespaceUris
       IN  /\ outcome.value.namespaceUri =
                 IF uris.has /\ Len(uris.Uri) >= 1 /\ uris.Uri[1] # ""
                 THEN uris.Uri[1]
                 ELSE "http://opcfoundation.org/UA/"
           /\ outcome.value.namespaceIndex = 1
           /\ outcome.value.fileName =
                 IF fileName = Undefined THEN "unknown.xml" ELSE fileName

\* a document with two Uri elements: the first one is the namespace URI
C10_Witness ==
    /\ Succeeded
    /\ Len(MainNodeSet.NamespaceUris.Uri) = 2
    /\ outcome.value.namespaceUri = "http://example.com/UA"
    /\ outcome.value.fileName = "test.xml"

-----------------------------------------------------------------------------
(* The categories of a result *)

TypeClasses == {"DataType", "ReferenceType", "VariableType", "ObjectType"}

\* the places <<c, k>> where the node nodeId is the k-th child of the c-th root node
PlacesOf(roots, nodeId) ==
    {p \in UNION {{<<c, k>> : k \in 1..Len(roots[c].children)} : c \in 1..Len(roots)} :
        roots[p[1]].children[p[2]] = nodeId}

\* the categories a node of the class nodeClass may be a child of
CategoriesOfClass(nodeClass) ==
    CASE nodeClass = "DataType" -> {DataTypesName}
      [] nodeClass = "ReferenceType" -> {ReferenceTypesName}
      [] nodeClass = "VariableType" -> {VariableTypesName}
      [] nodeClass = "ObjectType" -> {EventTypesName, InterfaceTypesName, ObjectTypesName}
      [] OTHER -> {}

(* C11: the categories partition the type-class nodes of a result.  Every  *)
(* DataType, ReferenceType, VariableType and ObjectType node of the node   *)
(* map is a child of exactly one category, exactly once: DataTypes,        *)
(* ReferenceTypes and VariableTypes for the first three classes, one of    *)
(* EventTypes, InterfaceTypes, ObjectTypes for an ObjectType.  A node of   *)
(* class Object, Variable, Method or View is a child of no category.       *)
C11_CategoriesPartition ==
    Succeeded =>
       \A i \in 1..Len(outcome.value.nodes) :
          LET node == outcome.value.nodes[i]
              places == PlacesOf(outcome.value.rootNodes, node.nodeId)
          IN  IF node.nodeClass \in TypeClasses
              THEN /\ Cardinality(places) = 1
                   /\ \A p \in places :
                         outcome.value.rootNodes[p[1]].browseName
                            \in CategoriesOfClass(node.nodeClass)
              ELSE places = {}

\* a result with a type node in its category next to a node that is in none
C11_Witness ==
    /\ Succeeded
    /\ \E i, j \in 1..Len(outcome.value.nodes) :
          /\ outcome.value.nodes[i].nodeClass = "VariableType"
          /\ outcome.value.nodes[j].nodeClass = "Variable"
          /\ PlacesOf(outcome.value.rootNodes, outcome.value.nodes[i].nodeId) = {<<1, 1>>}
          /\ PlacesOf(outcome.value.rootNodes, outcome.value.nodes[j].nodeId) = {}

\* the node nodeId is a child of the root node (category) called name
InCategory(roots, name, nodeId) ==
    \E c \in 1..Len(roots) :
        /\ roots[c].browseName = name
        /\ \E k \in 1..Len(roots[c].children) : roots[c].children[k] = nodeId

\* a reference of the node with this type and direction whose target contains text
HasReferenceTo(node, type, forward, text) ==
    \E r \in 1..Len(node.references) :
        /\ node.references[r].referenceType = type
        /\ node.references[r].isForward = forward
        /\ Includes(node.references[r].targetNodeId, text)

\* the EventTypes rule as specified: the name, or a backward HasSubtype reference
EventRule(node) ==
    \/ Includes(ToLowerCase(node.browseName), <<"e","v","e","n","t">>)
    \/ HasReferenceTo(node, "HasSubtype", FALSE, <<"E","v","e","n","t","T","y","p","e">>)

(* C12: an ObjectType node is a child of the EventTypes category if and    *)
(* only if its lower-cased browse name contains 'event' or it carries a    *)
(* backward HasSubtype reference whose target contains 'EventType'; a      *)
(* forward HasSubtype reference to such a target does not by itself put    *)
(* the node in EventTypes.                                                 *)
C12_EventTypesRule ==
    Succeeded =>
       \A i \in 1..Len(outcome.value.nodes) :
          LET node == outcome.value.nodes[i]
          IN  node.nodeClass = "ObjectType" =>
                 (InCategory(outcome.value.rootNodes, EventTypesName, node.nodeId)
                    <=> EventRule(node))

\* a reference of the node with this type, of either direction
HasReferenceOfType(node, type) ==
    \E r \in 1..Len(node.references) : node.references[r].referenceType = type

\* the InterfaceTypes rule as specified
InterfaceRule(node) ==
    \/ Includes(ToLowerCase(node.browseName), <<"i","n","t","e","r","f","a","c","e">>)
    \/ HasReferenceOfType(node, "HasInterface")
    \/ HasReferenceTo(node, "HasSubtype", FALSE, <<"I","n","t","e","r","f","a","c","e">>)

(* C13: an ObjectType node that does not match the EventTypes rule is a    *)
(* child of the InterfaceTypes category if and only if its lower-cased     *)
(* browse name contains 'interface', or it carries a HasInterface          *)
(* reference of either direction, or it carries a backward HasSubtype      *)
(* reference whose target contains 'Interface'; otherwise it is a child of *)
(* ObjectTypes.                                                            *)
C13_InterfaceTypesRule ==
    Succeeded =>
       \A i \in 1..Len(outcome.value.nodes) :
          LET node == outcome.value.nodes[i]
          IN  node.nodeClass = "ObjectType" /\ ~EventRule(node) =>
                 /\ InCategory(outcome.value.rootNodes, InterfaceTypesName, node.nodeId)
                       <=> InterfaceRule(node)
                 /\ ~InterfaceRule(node)
                       => InCategory(outcome.value.rootNodes, ObjectTypesName, node.nodeId)

(* C14: the ObjectType rules are evaluated in the order EventTypes,        *)
(* InterfaceTypes, ObjectTypes and the first match wins: a node that       *)
(* satisfies both the EventTypes rule and the InterfaceTypes rule is a     *)
(* child of EventTypes only.                                               *)
C14_FirstMatchWins ==
    Succeeded =>
       \A i \in 1..Len(outcome.value.nodes) :
          LET node == outcome.value.nodes[i]
          IN  node.nodeClass = "ObjectType" /\ EventRule(node) /\ InterfaceRule(node) =>
                 /\ InCategory(outcome.value.rootNodes, EventTypesName, node.nodeId)
                 /\ ~InCategory(outcome.value.rootNodes, InterfaceTypesName, node.nodeId)
                 /\ ~InCategory(outcome.value.rootNodes, ObjectTypesName, node.nodeId)

\* an ObjectType named like an interface that is a subtype of an event type, next to
\* an ObjectType that matches the InterfaceTypes rule only
C14_Witness ==
    /\ Succeeded
    /\ \E i, j \in 1..Len(outcome.value.nodes) :
          /\ outcome.value.nodes[i].nodeClass = "ObjectType"
          /\ outcome.value.nodes[i].browseName = InterFaceName
          /\ HasReferenceTo(outcome.value.nodes[i], "HasSubtype", FALSE, EventTypeText)
          /\ outcome.value.nodes[j].nodeClass = "ObjectType"
          /\ ~EventRule(outcome.value.nodes[j])
          /\ InCategory(outcome.value.rootNodes, EventTypesName, outcome.value.nodes[i].nodeId)
          /\ InCategory(outcome.value.rootNodes, InterfaceTypesName,
                        outcome.value.nodes[j].nodeId)

CategoryOrder == <<DataTypesName, EventTypesName, InterfaceTypesName,
                   ObjectTypesName, ReferenceTypesName, VariableTypesName>>

\* the place of a category name in the fixed order (0 for any other name)
CategoryRank(name) ==
    IF \E r \in 1..Len(CategoryOrder) : CategoryOrder[r] = name
    THEN CHOOSE r \in 1..Len(CategoryOrder) : CategoryOrder[r] = name
    ELSE 0

(* C15: the browse names of rootNodes are a subsequence of DataTypes,       *)
(* EventTypes, InterfaceTypes, ObjectTypes, ReferenceTypes, VariableTypes   *)
(* made of exactly the non-empty categories: they follow the fixed order    *)
(* without repetition, no category of rootNodes has an empty children list, *)
(* every type-class node of the map has its category in rootNodes, and      *)
(* rootNodes is empty when the map has no type-class node.                  *)
C15_CategoryOrder ==
    Succeeded =>
       LET roots == outcome.value.rootNodes
           nodeMap == outcome.value.nodes
       IN  /\ \A c \in 1..Len(roots) :
                 /\ CategoryRank(roots[c].browseName) > 0
                 /\ roots[c].children # <<>>
           /\ \A c, d \in 1..Len(roots) :
                 c < d => CategoryRank(roots[c].browseName) < CategoryRank(roots[d].browseName)
           /\ \A i \in 1..Len(nodeMap) :
                 nodeMap[i].nodeClass \in TypeClasses
                    => \E c \in 1..Len(roots) :
                          /\ roots[c].browseName \in CategoriesOfClass(nodeMap[i].nodeClass)
                          /\ \E k \in 1..Len(roots[c].children) :
                                roots[c].children[k] = nodeMap[i].nodeId
           /\ (\A i \in 1..Len(nodeMap) : nodeMap[i].nodeClass \notin TypeClasses)
                 => roots = <<>>

\* a VariableType extracted before a DataType: DataTypes comes first all the same,
\* and the four empty categories are left out
C15_Witness ==
    /\ Succeeded
    /\ Len(outcome.value.nodes) = 2
    /\ outcome.value.nodes[1].nodeClass = "VariableType"
    /\ outcome.value.nodes[2].nodeClass = "DataType"
    /\ Len(outcome.value.rootNodes) = 2
    /\ outcome.value.rootNodes[1].browseName = DataTypesName
    /\ outcome.value.rootNodes[2].browseName = VariableTypesName

(* C16: category nodes are synthetic.  The nodeId of every root node is    *)
(* 'Category_' followed by its browse name, the root node is not a value   *)
(* of the result's node map, and every child of a category is a node       *)
(* stored in the node map: the category refers to the map's node, so the   *)
(* hierarchy children seen through it are those the map holds.             *)
C16_SyntheticCategories ==
    Succeeded =>
       LET roots == outcome.value.rootNodes
           nodeMap == outcome.value.nodes
       IN  \A c \in 1..Len(roots) :
              /\ roots[c].nodeId = <<"C","a","t","e","g","o","r","y","_">> \o roots[c].browseName
              /\ \A i \in 1..Len(nodeMap) : nodeMap[i] # roots[c]
              /\ \A k \in 1..Len(roots[c].children) :
                    roots[c].children[k] \in NodeKeys(nodeMap)

\* a category whose child has hierarchy children of its own in the node map
C16_Witness ==
    /\ Succeeded
    /\ \E c \in 1..Len(outcome.value.rootNodes) :
          /\ outcome.value.rootNodes[c].nodeId = CategoryPrefix \o VariableTypesName
          /\ \E i \in 1..Len(outcome.value.nodes) :
                /\ outcome.value.rootNodes[c].children = <<outcome.value.nodes[i].nodeId>>
                /\ Len(outcome.value.nodes[i].children) = 2

\* the fixed table of node classes
ClassTable(tag) ==
    CASE tag = "UAObject" -> "Object"
      [] tag = "UAVariable" -> "Variable"
      [] tag = "UAMethod" -> "Method"
      [] tag = "UAObjectType" -> "ObjectType"
      [] tag = "UAVariableType" -> "VariableType"
      [] tag = "UAReferenceType" -> "ReferenceType"
      [] tag = "UADataType" -> "DataType"
      [] tag = "UAView" -> "View"
      [] OTHER -> "Object"

C19_AtomicFailure ==
    Failed =>
       /\ aliasMap = before.aliasMap
       /\ nodeNameMap = before.nodeNameMap

\* the call started on a parser whose maps were empty, as a new parser's are
FreshParser == before = NoMaps

\* the nodes of a result, other than the i-th, that have the NodeId raw and whose
\* element has a BrowseName
NamedPeers(nodeMap, i, raw) ==
    {j \in 1..Len(nodeMap) :
        /\ j # i
        /\ nodeMap[j].nodeId = raw
        /\ Truthy(SourceOf(raw).BrowseName)}

(* C20 as stated: nodeNameMap maps a node's raw nodeId to its browseName   *)
(* for the node elements of every document of the parse, the main document *)
(* included: with a fresh parser, a main-document reference or attribute   *)
(* whose raw target is the NodeId of another main-document node with a     *)
(* BrowseName, and which has no alias, resolves to that node's browseName. *)
C20_MainNamesIndexed ==
    Succeeded /\ FreshParser =>
       \A i \in 1..Len(nodes) : \A f \in ResolvedFields :
          LET raw == RawIds(nodes[i])[f]
          IN  raw.has /\ raw.v # <<>> /\ raw.v \notin DOMAIN aliasMap =>
                 \A j \in NamedPeers(nodes, i, raw.v) :
                    /\ raw.v \in DOMAIN nodeNameMap
                    /\ nodes[i][f] = Attr(nodes[j].browseName)

(* C20, amended: nodeNameMap maps a node's raw nodeId to its browseName    *)
(* for the node elements of the auxiliary documents of the parse only.     *)
(* With a fresh parser every key of nodeNameMap is named by an auxiliary   *)
(* document, and a main-document reference or attribute whose raw target   *)
(* has no alias and is named by no auxiliary document resolves to the text *)
(* after the last colon of the raw target (the raw target when that text   *)
(* is empty), also when the target is the NodeId of another main-document  *)
(* node with a BrowseName.                                                 *)
C20_AuxNamesOnly ==
    Succeeded /\ FreshParser =>
       /\ \A k \in DOMAIN nodeNameMap : AuxNaming(k) # {}
       /\ \A i \in 1..Len(nodes) : \A f \in ResolvedFields :
             LET raw == RawIds(nodes[i])[f]
             IN  raw.has /\ raw.v # <<>> /\ raw.v \notin DOMAIN aliasMap
                   /\ AuxNaming(raw.v) = {} =>
                    nodes[i][f] = Attr(IF AfterLastColon(raw.v) # <<>>
                                       THEN AfterLastColon(raw.v) ELSE raw.v)

\* the variable i=2 has ParentNodeId i=1, the NodeId of the object named A in the
\* same document: its type is 'i=1', not 'A'
C20_Witness ==
    /\ Succeeded /\ FreshParser
    /\ I1 \notin DOMAIN aliasMap /\ AuxNaming(I1) = {}
    /\ \E i, j \in 1..Len(nodes) :
          /\ j \in NamedPeers(nodes, i, I1)
          /\ nodes[j].browseName = <<"A">>
          /\ RawIds(nodes[i]).type = Attr(I1)
          /\ nodes[i].type = Attr(I1)

-----------------------------------------------------------------------------
(* Vocabulary of the import properties *)

ImportedDoc == currentFile.text
UriElements(doc) == IF doc.UANodeSet.has THEN doc.UANodeSet.NamespaceUris.Uri ELSE <<>>
HasRecognizedNode(doc) ==
    /\ doc.UANodeSet.has
    /\ \E i \in 1..Len(doc.UANodeSet.elems), t \in 1..Len(NodeTypes) :
           doc.UANodeSet.elems[i].tag = NodeTypes[t]
Called(op) == \E i \in 1..Len(events) : events[i].op = op
ErrorCodes == {events[i].code : i \in {j \in 1..Len(events) : events[j].op = "onError"}}

-----------------------------------------------------------------------------
(* C21: validateXML returns isValid = true exactly when its errors list is *)
(* empty; for a document without parser error that is exactly when the     *)
(* UANodeSet element exists, has at least one NamespaceUris > Uri element  *)
(* and at least one of the 8 recognized node elements; for a document with *)
(* a parser error the result is isValid = false with the one error         *)
(* PARSE_ERROR and no structural error.                                    *)
C21_ValidateXML ==
    validation.has =>
        LET result == validation.v
        IN  /\ result.isValid <=> result.errors = <<>>
            /\ ~ImportedDoc.parsererror.has =>
                   (result.errors = <<>> <=>
                        /\ ImportedDoc.UANodeSet.has
                        /\ Len(UriElements(ImportedDoc)) >= 1
                        /\ HasRecognizedNode(ImportedDoc))
            /\ ImportedDoc.parsererror.has =>
                   /\ ~result.isValid
                   /\ Len(result.errors) = 1
                   /\ result.errors[1].code = "PARSE_ERROR"

\* a well-formed nodeset with Uri elements whose only element is no recognized
\* node element has been validated
C21_Witness ==
    /\ validation.has
    /\ ~validation.v.isValid
    /\ ~ImportedDoc.parsererror.has
    /\ ImportedDoc.UANodeSet.has
    /\ Len(UriElements(ImportedDoc)) >= 1
    /\ ImportedDoc.UANodeSet.elems # <<>>

-----------------------------------------------------------------------------
(* C22: detectDuplicate(checksum, loadedChecksums) returns true exactly    *)
(* when checksum is defined, non-empty and a member of loadedChecksums,    *)
(* false for a missing or empty checksum whatever the set holds, and       *)
(* leaves loadedChecksums as it was.                                       *)
C22_DetectDuplicate ==
    [][importPc = "duplicate" =>
          /\ isDuplicate'.has
          /\ isDuplicate'.v <=> (/\ checksum.has
                                 /\ checksum.v # ""
                                 /\ checksum.v \in loadedChecksums)
          /\ loadedChecksums' = loadedChecksums]_vars

\* an empty checksum was looked up in a set that holds the empty string
C22_Witness ==
    /\ importPc = "parse"
    /\ isDuplicate.has
    /\ ~isDuplicate.v
    /\ checksum = Name("")
    /\ "" \in loadedChecksums

-----------------------------------------------------------------------------
(* C23: the k namespaces extractNamespaces returns carry the indices       *)
(* 0, 1, ..., k-1 in document order, also when Uri elements with empty or  *)
(* white-space text are left out.                                          *)
C23_SequentialIndices ==
    metadata.has =>
        \A k \in 1..Len(metadata.v.namespaces) : metadata.v.namespaces[k].index = k - 1

-----------------------------------------------------------------------------
(* C24: when validateXML returns isValid = false for a file, the import of *)
(* that file never calls parseNodesetFile, does not call onNodesetLoaded   *)
(* and calls onError with code INVALID_FORMAT.                             *)
C24_ValidationGates ==
    (validation.has /\ ~validation.v.isValid) =>
        /\ ~Called("parseNodesetFile")
        /\ ~Called("onNodesetLoaded")
        /\ pc = "idle"
        /\ "INVALID_FORMAT" \in ErrorCodes

\* the import of a file that validateXML found invalid has ended
C24_Witness ==
    /\ importPc = "settled"
    /\ validation.has
    /\ ~validation.v.isValid

\* the positions of the calls of a service method among the events
CallsOf(evs, op) == {i \in 1..Len(evs) : evs[i].op = op}

-----------------------------------------------------------------------------
(* C25: the duplicate check of a file runs after its checksum was          *)
(* generated and before it is parsed, with that checksum and the checksums *)
(* of the files loaded so far; when it returns true, onError is called     *)
(* with code DUPLICATE and neither parseNodesetFile nor onNodesetLoaded is *)
(* called for the file; a loaded file's checksum joins the loaded          *)
(* checksums, which only grow, so the next duplicate check receives it.    *)
C25_DuplicateGates ==
    [][/\ importPc = "duplicate" =>
            /\ CallsOf(events, "generateChecksum") # {}
            /\ CallsOf(events, "detectDuplicate") = {}
            /\ CallsOf(events', "detectDuplicate") = {Len(events) + 1}
            /\ events'[Len(events) + 1].checksum = checksum
            /\ events'[Len(events) + 1].loaded = loadedChecksums
            /\ CallsOf(events', "parseNodesetFile") = {}
       /\ CallsOf(events', "parseNodesetFile") # {} =>
            \E d \in CallsOf(events', "detectDuplicate") :
                \A c \in CallsOf(events', "parseNodesetFile") : d < c
       /\ (isDuplicate'.has /\ isDuplicate'.v) =>
            /\ "DUPLICATE" \in {events'[i].code : i \in CallsOf(events', "onError")}
            /\ CallsOf(events', "parseNodesetFile") = {}
            /\ CallsOf(events', "onNodesetLoaded") = {}
            /\ pc' = "idle"
       /\ (CallsOf(events, "onNodesetLoaded") = {}
              /\ CallsOf(events', "onNodesetLoaded") # {}) =>
            /\ checksum.has
            /\ checksum.v \in loadedChecksums'
       /\ loadedChecksums \subseteq loadedChecksums']_vars

\* a file was rejected as a duplicate of a file loaded before it
C25_Witness ==
    /\ importPc = "settled"
    /\ isDuplicate.has
    /\ isDuplicate.v
    /\ "DUPLICATE" \in ErrorCodes
    /\ checksum.v \in loadedChecksums

-----------------------------------------------------------------------------
(* Vocabulary of the reference properties *)

\* the Reference elements of the element with NodeId id, and those among them
\* whose trimmed text is not empty
ReferenceElements(id) ==
    IF SourceOf(id).References.has THEN SourceOf(id).References.Reference ELSE <<>>
KeptReferences(id) == SelectSeq(ReferenceElements(id), LAMBDA r : Trim(r.text) # <<>>)

\* entry k of the reference list of node is made from element ref
EntryOf(node, k, ref, referenceType) ==
    /\ node.references[k].referenceType = referenceType
    /\ node.references[k].isForward = ~(ref.IsForward.has /\ ref.IsForward.v = "false")
    /\ node.references[k].targetNodeId = Trim(ref.text)

(* C26 as stated: the reference list of a node holds, in document order,   *)
(* one entry per Reference element with non-empty trimmed text; its        *)
(* referenceType is the ReferenceType attribute, or 'References' when the  *)
(* attribute is absent; its isForward is false only for IsForward =        *)
(* 'false'; its targetNodeId is the trimmed raw text.                      *)
C26_ReferenceListAsStated ==
    \A i \in 1..Len(nodes) :
        LET kept == KeptReferences(nodes[i].nodeId)
        IN  /\ Len(nodes[i].references) = Len(kept)
            /\ \A k \in 1..Len(kept) :
                   EntryOf(nodes[i], k, kept[k],
                           IF kept[k].ReferenceType.has THEN kept[k].ReferenceType.v
                           ELSE "References")

(* C26, amended: as above, with referenceType 'References' when the        *)
(* ReferenceType attribute is absent or empty.                             *)
C26_ReferenceList ==
    \A i \in 1..Len(nodes) :
        LET kept == KeptReferences(nodes[i].nodeId)
        IN  /\ Len(nodes[i].references) = Len(kept)
            /\ \A k \in 1..Len(kept) :
                   EntryOf(nodes[i], k, kept[k],
                           IF kept[k].ReferenceType.has /\ kept[k].ReferenceType.v # ""
                           THEN kept[k].ReferenceType.v
                           ELSE "References")

\* a node was extracted from an element whose first Reference is blank and is
\* left out, and whose second has an empty ReferenceType, IsForward="False" and
\* a text with white space
C26_Witness ==
    /\ Len(nodes) = 1
    /\ Len(ReferenceElements(nodes[1].nodeId)) = 2
    /\ Len(nodes[1].references) = 1
    /\ ReferenceElements(nodes[1].nodeId)[2] = Reference(Name(""), Name("False"), NsTSpaced)
    /\ nodes[1].references[1].isForward
    /\ nodes[1].references[1].targetNodeId = NsT

-----------------------------------------------------------------------------
\* the name a raw node id resolves to, for an optional raw id
ResolvedName(raw) ==
    IF raw.has THEN Attr(ResolvedBySpec(aliasMap, nodeNameMap, raw.v)) ELSE NoAttr

(* C27: derivedFrom of a node is the resolved name of the target of its    *)
(* first HasSubtype reference with isForward = false, and undefined when   *)
(* it has none; typeDefinition and modellingRule are the resolved names of *)
(* the targets of its first forward HasTypeDefinition and first forward    *)
(* HasModellingRule reference, and undefined when it has no forward one.   *)
C27_FirstReferenceNames ==
    \A i \in 1..Len(nodes) :
        /\ nodes[i].derivedFrom = ResolvedName(FirstTarget(nodes[i], "HasSubtype", FALSE))
        /\ nodes[i].typeDefinition =
               ResolvedName(FirstTarget(nodes[i], "HasTypeDefinition", TRUE))
        /\ nodes[i].modellingRule =
               ResolvedName(FirstTarget(nodes[i], "HasModellingRule", TRUE))

\* a node with a forward HasSubtype reference to n:T before a backward one to
\* i=2 has the name of i=2 as derivedFrom
C27_Witness ==
    /\ Len(nodes) = 1
    /\ Len(nodes[1].references) = 2
    /\ nodes[1].references[1] =
           [referenceType |-> "HasSubtype", isForward |-> TRUE, targetNodeId |-> NsT]
    /\ nodes[1].references[2] =
           [referenceType |-> "HasSubtype", isForward |-> FALSE, targetNodeId |-> I2]
    /\ nodes[1].derivedFrom = Attr(<<"A", "K">>)

-----------------------------------------------------------------------------
\* A has a forward HasComponent, Organizes or HasProperty reference to nodeId
Targets(A, nodeId) ==
    \E k \in 1..Len(A.references) :
        /\ A.references[k].referenceType \in {"HasComponent", "Organizes", "HasProperty"}
        /\ A.references[k].isForward
        /\ A.references[k].targetNodeId = nodeId
ChildIds(A) == {A.children[k] : k \in 1..Len(A.children)}

(* C28: no node has children while nodes are still being extracted, and    *)
(* after the hierarchy pass a qualifying forward reference from A to a map *)
(* node B has B among A's children, whether B was extracted before or      *)
(* after A and whatever the tags of the two elements.                      *)
C28_HierarchyAfterExtraction ==
    /\ pc = "nodes" => \A i \in 1..Len(nodes) : nodes[i].children = <<>>
    /\ AllExtracted =>
          \A i, j \in 1..Len(nodes) :
              Targets(nodes[i], nodes[j].nodeId) => nodes[j].nodeId \in ChildIds(nodes[i])

\* a variable type refers to a view, whose tag is extracted after its own, and
\* has it as a child
C28_Witness ==
    /\ Succeeded
    /\ \E i, j \in 1..Len(nodes) :
          /\ i < j
          /\ nodes[i].nodeClass = "VariableType"
          /\ nodes[j].nodeClass = "View"
          /\ Targets(nodes[i], nodes[j].nodeId)
          /\ nodes[j].nodeId \in ChildIds(nodes[i])

-----------------------------------------------------------------------------
\* the NodeIds of the main document's elements
ElementIds ==
    {MainNodeSet.elems[i].NodeId.v :
        i \in {j \in 1..Len(MainNodeSet.elems) : Truthy(MainNodeSet.elems[j].NodeId)}}
EntriesOf(id) == {i \in 1..Len(nodes) : nodes[i].nodeId = id}

\* the node parseNode makes of the element extracted last under the NodeId id
LastNodeOf(id) ==
    parseNode(aliasMap, nodeNameMap, SourceOf(id), SourceOf(id).tag).node

(* C29: when several main-document elements carry one NodeId, the node map *)
(* holds exactly one entry for it, the node of the element extracted last  *)
(* (tag order, then document order); children lists and categories hold    *)
(* what the entries of the map give and nothing of an overwritten node.    *)
C29_LastElementWins ==
    /\ AllExtracted =>
          \A id \in ElementIds :
              /\ Cardinality(EntriesOf(id)) = 1
              /\ \A i \in EntriesOf(id) :
                    /\ [nodes[i] EXCEPT !.children = <<>>] = LastNodeOf(id)
                    /\ nodes[i].children = ExpectedChildren(nodes, nodes[i])
    /\ Succeeded =>
          \A id \in ElementIds :
              /\ Cardinality(PlacesOf(rootNodes, id)) <= 1
              /\ \A p \in PlacesOf(rootNodes, id) :
                    rootNodes[p[1]].browseName
                        \in CategoriesOfClass(LastNodeOf(id).nodeClass)

\* an object type and a data type, each with a reference to i=2, share i=1: the
\* entry is the data type with its one child, and i=1 is a child of DataTypes only
C29_Witness ==
    /\ Succeeded
    /\ Cardinality(ElementsWithId(I1)) >= 2
    /\ \E i \in ElementsWithId(I1) : MainNodeSet.elems[i] = PlainType
    /\ \E i \in ElementsWithId(I2) : MainNodeSet.elems[i] = VarB
    /\ \A i \in EntriesOf(I1) : nodes[i].nodeClass = "DataType" /\ nodes[i].children = <<I2>>
    /\ InCategory(rootNodes, DataTypesName, I1)
    /\ ~InCategory(rootNodes, ObjectTypesName, I1)

-----------------------------------------------------------------------------
\* an auxiliary document that is malformed or has no UANodeSet root
NoNodesetDocument(doc) == doc.parsererror.has \/ ~doc.UANodeSet.has
SoundReferences == SelectSeq(referenceNodesets, LAMBDA d : ~NoNodesetDocument(d))

(* C30: an auxiliary document that is malformed or has no UANodeSet root   *)
(* does not make parseNodeset fail and adds nothing to aliasMap or         *)
(* nodeNameMap: the call settles as the same call without these documents  *)
(* does, the other auxiliary documents being processed.                    *)
C30_BrokenAuxIgnored ==
    pc = "done" =>
        /\ outcome = parseNodeset(EmptyMap, EmptyMap, xmlContent, fileName, SoundReferences)
        /\ nodeNameMap = mapsAfterReferences(EmptyMap, EmptyMap, SoundReferences).nodeNameMap

====
